---------------------------- MODULE Spec2Model ----------------------------
(***************************************************************************)
(* A model of skostools.py: SKOS resources (Concept, ConceptScheme,        *)
(* Collection) bound to the single shared triple store masterGraph, and    *)
(* the validate-then-commit methods that mutate it.                        *)
(*                                                                         *)
(* Every Python method is an operator from the store before the call (and  *)
(* the call's arguments) to an outcome record                              *)
(*     [g |-> store when the call ends, kind |-> "ok" or the exception     *)
(*      class raised, tpl |-> the triple returned or carried by the        *)
(*      exception, warned |-> a logger.warning was emitted].               *)
(* An action is one call of a public method by the caller.                 *)
(***************************************************************************)
EXTENDS Naturals, FiniteSets, Sequences, TLC

VARIABLES graph,    \* masterGraph: the set of triples <<subject, predicate, object>>
          before,   \* masterGraph as it was when the last call began
          lastOp,   \* the last call made: method, receiver, arguments
          result,   \* how that call ended: kind, tpl, warned
          budget,   \* number of calls the caller may still make
          held,     \* the objects the caller holds: class and self.uri of each
          inflight  \* the calls of concurrent callers: how far each has got

vars == <<graph, before, lastOp, result, budget, held, inflight>>

-----------------------------------------------------------------------------
(* Bounds *)

\* The caller makes at most this many calls in a run: of SpecSem, of SpecMap.
MaxOpsSem == 5

MaxOpsMap == 4

\* ... of SpecHier.
MaxOpsHier == 5

\* ... of SpecMapAdd.
MaxOpsMapAdd == 3

\* ... of SpecScheme.
MaxOpsScheme == 4

\* ... and in a run of SpecLabel.
MaxOpsLabel == 3

\* ... of SpecChain.
MaxOpsChain == 5

\* ... of SpecExact.
MaxOpsExact == 4

\* ... of SpecClose.
MaxOpsClose == 4

\* ... of SpecKinds.
MaxOpsKinds == 4

\* ... of SpecPref.
MaxOpsPref == 4

\* ... of SpecQuery.
MaxOpsQuery == 4

\* ... of SpecColl.
MaxOpsColl == 3

\* ... of SpecUnsupported.
MaxOpsUnsupported == 4

\* ... of SpecRemove.
MaxOpsRemove == 4

\* ... of SpecRace: the calls made before the two callers start.
MaxOpsRace == 2

\* ... of SpecInverse.
MaxOpsInverse == 4

\* ... of SpecNotes.
MaxOpsNotes == 2

\* ... of SpecTwice.
MaxOpsTwice == 3

-----------------------------------------------------------------------------
(* Terms *)

\* Python None, as a language tag or as an absent argument.
NoLang == "None"

\* rdflib.term.URIRef(x)
URIRef(x) == [t |-> "uri", v |-> x, lang |-> NoLang]

\* A Python str passed where a label is expected.
Str(s) == [t |-> "str", v |-> s, lang |-> NoLang]

\* PlainLiteral(lexical, lang): a literal with an optional language tag.
PlainLiteral(lexical, lang) == [t |-> "lit", v |-> lexical, lang |-> lang]

\* The resource identifiers of the runs: the Concept and the ConceptScheme
\* objects the caller holds.
Concepts == {URIRef("A"), URIRef("B"), URIRef("C")}

Schemes == {URIRef("S"), URIRef("T")}

\* The runs of the exactMatch chain use a third scheme, those that join two
\* groups of exact matches a fourth concept.
ChainSchemes == Schemes \cup {URIRef("U")}

GroupConcepts == Concepts \cup {URIRef("D")}

\* rdflib.BNode: a blank node.
BNode(x) == [t |-> "bnode", v |-> x, lang |-> NoLang]

\* Python None passed as a URI argument.
None == [t |-> "none", v |-> "None", lang |-> NoLang]

\* The identifiers of the runs that construct resources, as URIRef and as
\* str, and the blank nodes rdflib.BNode() can return.
Identifiers == {URIRef("A"), URIRef("S"), URIRef("K")}

URIInputs == Identifiers \cup {Str("K")}

BNodes == {BNode("n1"), BNode("n2")}

\* The label inputs of the runs: strings, literals with their own tag, tags.
Langs == {"en", NoLang}

Strings == {"x", "y"}

LabelSubjects == {URIRef("A"), URIRef("B")}

LabelInputs == {Str(s) : s \in Strings} \cup {PlainLiteral("y", "en")}

\* The labels looked up: a str, a literal with a tag and one without.
QueryInputs == LabelInputs \cup {PlainLiteral("x", NoLang)}

SKOSLabels == {"altLabel", "hiddenLabel", "prefLabel"}

SKOSNotes ==
    {"definition", "changeNote", "editorialNote", "example", "historyNote", "note",
     "scopeNote"}

\* The values given as notes: a str, a literal, the URI of a document, a
\* blank node.
NoteInputs == {Str("x"), PlainLiteral("y", "en"), URIRef("doc"), BNode("n1")}

\* The predicates addNote is called with: the note predicates and one that
\* is none.
NotePredicates == SKOSNotes \cup {"prefLabel"}

\* The predicates of the operations left unimplemented.
UnsupportedPredicates == {"broaderTransitive", "narrowerTransitive", "notation"}

SKOSSemanticRelations ==
    {"broader", "broaderTransitive", "narrower", "narrowerTransitive", "related"}

SKOSMappingRelations ==
    {"broadMatch", "closeMatch", "exactMatch", "narrowMatch", "relatedMatch"}

\* The exception classes derived from SKOSError.
SKOSErrors ==
    {"ConflictingLabelError", "DisjointMatchError", "DisjointRelationError",
     "RedundantLabelError", "ReflexiveError", "InvalidPredicateError",
     "ImproperAssociationError", "ImproperMappingError", "SchemeConceptError",
     "TopConceptError"}

-----------------------------------------------------------------------------
(* Outcomes *)

NoTriple == <<URIRef("-"), "-", URIRef("-")>>

\* The method returned normally.
Ok(g, tpl, warned) == [g |-> g, kind |-> "ok", tpl |-> tpl, warned |-> warned]

\* The method returned the value ret, a set, and no triple.
Returned(g, ret) ==
    [g |-> g, kind |-> "ok", tpl |-> NoTriple, warned |-> FALSE, ret |-> ret]

\* The method raised `kind` carrying tpl, with the store as it was then.
Raise(g, kind, tpl, warned) ==
    [g |-> g, kind |-> kind, tpl |-> tpl, warned |-> warned]

-----------------------------------------------------------------------------
(* The triple store, as the methods use it *)

\* self.graph.objects(s, p)
objects(g, s, p) == {tr[3] : tr \in {u \in g : u[1] = s /\ u[2] = p}}

\* self.graph.subjects(p, o)
subjects(g, p, o) == {tr[1] : tr \in {u \in g : u[2] = p /\ u[3] = o}}

\* self.graph.remove(triple)
remove(g, triple) == g \ {triple}

\* SKOSSubject._addTriple: self.graph.add(triple); the store is a set.
_addTriple(g, triple) == g \cup {triple}

\* easyURI(thing): the uri of a SKOSSubject (objects are passed by their
\* self.uri), a URIRef itself, the URIRef made of a str.
easyURI(thing) == IF thing.t = "str" THEN URIRef(thing.v) ELSE thing

\* SKOSSubject._easyTriple: (self.uri, predicate, easyURI(SKOSobject))
_easyTriple(self, SKOSobject, predicate) == <<self, predicate, easyURI(SKOSobject)>>

\* Concept._getObjects
_getObjects(g, self, predicate) == objects(g, self, predicate)

getConceptSchemes(g, self) == _getObjects(g, self, "inScheme")

getBroaderConcepts(g, self) == _getObjects(g, self, "broader")

getBroaderTransitiveConcepts(g, self) == _getObjects(g, self, "broaderTransitive")

getBroadMatches(g, self) == _getObjects(g, self, "broadMatch")

getNarrowMatches(g, self) == _getObjects(g, self, "narrowMatch")

getRelatedMatches(g, self) == _getObjects(g, self, "relatedMatch")

-----------------------------------------------------------------------------
(* Concept: private helpers *)

\* (mutant) the inverse triple is not written.
_addRelationship_forwardOnly(g, triple, inverse) == _addTriple(g, triple)

\* Concept._addRelationship: the triple, then its inverse.
_addRelationship(g, triple, inverse) == _addTriple(_addTriple(g, triple), inverse)

\* _testReflexive raising whatever the caller requested.
_testReflexive_strict(triple, raiseException) ==
    IF triple[1] = triple[3] THEN "raise" ELSE "pass"

\* Concept._testReflexive: "raise" (ReflexiveError), "warn" (logged, accepted)
\* or "pass" (subject and object differ).
_testReflexive(triple, raiseException) ==
    IF triple[1] = triple[3]
    THEN (IF raiseException THEN "raise" ELSE "warn")
    ELSE "pass"

\* (mutant) the negation is dropped: true when the scheme sets are disjoint.
_testSameScheme_inverted(g, self, concept) ==
    (getConceptSchemes(g, self) \cap getConceptSchemes(g, concept)) = {}

\* Concept._testSameScheme: the two concepts share at least one scheme.
_testSameScheme(g, self, concept) ==
    (getConceptSchemes(g, self) \cap getConceptSchemes(g, concept)) # {}

-----------------------------------------------------------------------------
(* Concept: semantic relations *)

addBroader(g, self, concept, irreflexive) ==
    LET triple == _easyTriple(self, concept, "broader")
        refl   == _testReflexive(triple, irreflexive)
        w      == (refl = "warn")
    IN  IF refl = "raise" THEN Raise(g, "ReflexiveError", triple, FALSE)
        ELSE IF ~_testSameScheme(g, self, concept)
             THEN Raise(g, "ImproperAssociationError", triple, w)
        ELSE IF <<self, "related", concept>> \in g \/ <<concept, "related", self>> \in g
             THEN Raise(g, "DisjointRelationError", triple, w)
        ELSE Ok(_addRelationship(g, triple, <<concept, "narrower", self>>), triple, w)

addNarrower(g, self, concept, irreflexive) ==
    LET triple == _easyTriple(self, concept, "narrower")
        refl   == _testReflexive(triple, irreflexive)
        w      == (refl = "warn")
    IN  IF refl = "raise" THEN Raise(g, "ReflexiveError", triple, FALSE)
        ELSE IF ~_testSameScheme(g, self, concept)
             THEN Raise(g, "ImproperAssociationError", triple, w)
        ELSE IF <<self, "related", concept>> \in g \/ <<concept, "related", self>> \in g
             THEN Raise(g, "DisjointRelationError", triple, w)
        ELSE Ok(_addRelationship(g, triple, <<concept, "broader", self>>), triple, w)

\* (mutant) a relation already asserted is refused as a disjoint relation.
addRelated_onceOnly(g, self, concept, irreflexive) ==
    LET triple == _easyTriple(self, concept, "related")
    IN  IF triple[1] = triple[3] THEN Raise(g, "ReflexiveError", triple, FALSE)
        ELSE IF ~_testSameScheme(g, self, concept)
             THEN Raise(g, "ImproperMappingError", triple, FALSE)
        ELSE IF triple \in g THEN Raise(g, "DisjointRelationError", triple, FALSE)
        ELSE Ok(_addRelationship(g, triple, <<concept, "related", self>>), triple, FALSE)

\* The irreflexive argument is accepted and not read: the reflexivity test is
\* always strict, and a missing shared scheme raises ImproperMappingError.
addRelated(g, self, concept, irreflexive) ==
    LET triple == _easyTriple(self, concept, "related")
        refl   == _testReflexive(triple, TRUE)
    IN  IF refl = "raise" THEN Raise(g, "ReflexiveError", triple, FALSE)
        ELSE IF ~_testSameScheme(g, self, concept)
             THEN Raise(g, "ImproperMappingError", triple, FALSE)
        ELSE Ok(_addRelationship(g, triple, <<concept, "related", self>>), triple, FALSE)

\* (mutant) the transitive relation is written as broader is.
addBroaderTransitive_written(g, self, concept, irreflexive) ==
    LET triple == _easyTriple(self, concept, "broaderTransitive")
    IN  Ok(_addRelationship(g, triple, <<concept, "narrowerTransitive", self>>),
           triple, FALSE)

\* Concept.addBroaderTransitive: raise NotImplementedError, nothing else.
addBroaderTransitive(g, self, concept, irreflexive) ==
    Raise(g, "NotImplementedError", NoTriple, FALSE)

\* Concept.addNarrowerTransitive: raise NotImplementedError, nothing else.
addNarrowerTransitive(g, self, concept, irreflexive) ==
    Raise(g, "NotImplementedError", NoTriple, FALSE)

\* Concept.addNotation: raise NotImplementedError, nothing else.
addNotation(g, self, notation) == Raise(g, "NotImplementedError", NoTriple, FALSE)

removeBroaderConcept(g, self, concept) ==
    LET triple == _easyTriple(self, concept, "broader")
    IN  Ok(remove(remove(g, triple), <<concept, "narrower", self>>), triple, FALSE)

removeNarrower(g, self, concept) ==
    LET triple == _easyTriple(self, concept, "narrower")
    IN  Ok(remove(remove(g, triple), <<concept, "broader", self>>), triple, FALSE)

removeRelated(g, self, concept) ==
    LET triple == _easyTriple(self, concept, "related")
    IN  Ok(remove(remove(g, triple), <<concept, "related", self>>), triple, FALSE)

-----------------------------------------------------------------------------
(* Concept: mapping relations *)

\* (mutant) only an exactMatch between the pair is tested.
addBroadMatch_exactOnly(g, self, concept) ==
    LET triple == _easyTriple(self, concept, "broadMatch")
    IN  IF triple[1] = triple[3] THEN Raise(g, "ReflexiveError", triple, FALSE)
        ELSE IF _testSameScheme(g, self, concept)
             THEN Raise(g, "ImproperMappingError", triple, FALSE)
        ELSE IF <<self, "exactMatch", concept>> \in g
                \/ <<concept, "exactMatch", self>> \in g
             THEN Raise(g, "DisjointMatchError", triple, FALSE)
        ELSE Ok(_addRelationship(g, triple, <<concept, "narrowMatch", self>>),
                triple, FALSE)

\* A relatedMatch between the pair raises DisjointRelationError, an
\* exactMatch between the pair DisjointMatchError, tested in that order.
addBroadMatch(g, self, concept) ==
    LET triple == _easyTriple(self, concept, "broadMatch")
        refl   == _testReflexive(triple, TRUE)
    IN  IF refl = "raise" THEN Raise(g, "ReflexiveError", triple, FALSE)
        ELSE IF _testSameScheme(g, self, concept)
             THEN Raise(g, "ImproperMappingError", triple, FALSE)
        ELSE IF <<self, "relatedMatch", concept>> \in g
                \/ <<concept, "relatedMatch", self>> \in g
             THEN Raise(g, "DisjointRelationError", triple, FALSE)
        ELSE IF <<self, "exactMatch", concept>> \in g
                \/ <<concept, "exactMatch", self>> \in g
             THEN Raise(g, "DisjointMatchError", triple, FALSE)
        ELSE Ok(_addRelationship(g, triple, <<concept, "narrowMatch", self>>),
                triple, FALSE)

addCloseMatch(g, self, concept) ==
    LET triple == _easyTriple(self, concept, "closeMatch")
        refl   == _testReflexive(triple, TRUE)
    IN  IF refl = "raise" THEN Raise(g, "ReflexiveError", triple, FALSE)
        ELSE IF _testSameScheme(g, self, concept)
             THEN Raise(g, "ImproperMappingError", triple, FALSE)
        ELSE Ok(_addRelationship(g, triple, <<concept, "closeMatch", self>>),
                triple, FALSE)

addNarrowMatch(g, self, concept) ==
    LET triple == _easyTriple(self, concept, "narrowMatch")
        refl   == _testReflexive(triple, TRUE)
    IN  IF refl = "raise" THEN Raise(g, "ReflexiveError", triple, FALSE)
        ELSE IF _testSameScheme(g, self, concept)
             THEN Raise(g, "ImproperMappingError", triple, FALSE)
        ELSE Ok(_addRelationship(g, triple, <<concept, "broadMatch", self>>),
                triple, FALSE)

addRelatedMatch(g, self, concept) ==
    LET triple == _easyTriple(self, concept, "relatedMatch")
        refl   == _testReflexive(triple, TRUE)
    IN  IF refl = "raise" THEN Raise(g, "ReflexiveError", triple, FALSE)
        ELSE IF _testSameScheme(g, self, concept)
             THEN Raise(g, "ImproperMappingError", triple, FALSE)
        ELSE Ok(_addRelationship(g, triple, <<concept, "relatedMatch", self>>),
                triple, FALSE)

\* (mutant) propagateFromTarget without the test that skips the two ends.
propagateFromTarget_unguarded(g, self, concept) ==
    g \cup UNION {{<<self, "exactMatch", match>>, <<self, "closeMatch", match>>} :
                  match \in objects(g, concept, "exactMatch")}

\* The first propagation loop of addExactMatch: every exactMatch object of
\* the target, other than the two ends, becomes an exactMatch and closeMatch
\* object of the subject (one direction only).
propagateFromTarget(g, self, concept) ==
    g \cup UNION {{<<self, "exactMatch", match>>, <<self, "closeMatch", match>>} :
                  match \in objects(g, concept, "exactMatch") \ {self, concept}}

\* propagateFromSubject without its loop.
propagateFromSubject_skipped(g, self, concept) == g

\* The second loop, over the subject's exactMatch objects (those the first
\* loop wrote included), writing triples whose subject is the target.
propagateFromSubject(g, self, concept) ==
    g \cup UNION {{<<concept, "exactMatch", match>>, <<concept, "closeMatch", match>>} :
                  match \in objects(g, self, "exactMatch") \ {self, concept}}

\* (mutant) addExactMatch without its disjointness test.
addExactMatch_undisjoint(g, self, concept) ==
    LET triple == _easyTriple(self, concept, "exactMatch")
        g1     == _addRelationship(g, triple, <<concept, "exactMatch", self>>)
        close  == addCloseMatch(g1, self, concept)
    IN  IF triple[1] = triple[3] THEN Raise(g, "ReflexiveError", triple, FALSE)
        ELSE IF _testSameScheme(g, self, concept)
             THEN Raise(g, "ImproperMappingError", triple, FALSE)
        ELSE IF close.kind # "ok" THEN close
        ELSE Ok(propagateFromSubject(propagateFromTarget(close.g, self, concept),
                                     self, concept),
                triple, FALSE)

addExactMatch(g, self, concept) ==
    LET triple == _easyTriple(self, concept, "exactMatch")
        refl   == _testReflexive(triple, TRUE)
        others == getBroadMatches(g, self) \cup getNarrowMatches(g, self)
                  \cup getRelatedMatches(g, self)
        g1     == _addRelationship(g, triple, <<concept, "exactMatch", self>>)
        close  == addCloseMatch(g1, self, concept)
    IN  IF refl = "raise" THEN Raise(g, "ReflexiveError", triple, FALSE)
        ELSE IF _testSameScheme(g, self, concept)
             THEN Raise(g, "ImproperMappingError", triple, FALSE)
        ELSE IF concept \in others
             THEN Raise(g, "DisjointMatchError", triple, FALSE)
        ELSE IF close.kind # "ok" THEN close
        ELSE Ok(propagateFromSubject(propagateFromTarget(close.g, self, concept),
                                     self, concept),
                triple, FALSE)

\* addExactMatch up to its first write: the three tests, on the store as it
\* is when they run. "ok" here means that the call goes on to write.
addExactMatch_checks(g, self, concept) ==
    LET triple == _easyTriple(self, concept, "exactMatch")
        refl   == _testReflexive(triple, TRUE)
        others == getBroadMatches(g, self) \cup getNarrowMatches(g, self)
                  \cup getRelatedMatches(g, self)
    IN  IF refl = "raise" THEN Raise(g, "ReflexiveError", triple, FALSE)
        ELSE IF _testSameScheme(g, self, concept)
             THEN Raise(g, "ImproperMappingError", triple, FALSE)
        ELSE IF concept \in others
             THEN Raise(g, "DisjointMatchError", triple, FALSE)
        ELSE Ok(g, triple, FALSE)

\* addExactMatch from its first write on, on the store as it is by then:
\* the pair, addCloseMatch (with its own tests), the two propagation loops.
addExactMatch_writes(g, self, concept) ==
    LET triple == _easyTriple(self, concept, "exactMatch")
        g1     == _addRelationship(g, triple, <<concept, "exactMatch", self>>)
        close  == addCloseMatch(g1, self, concept)
    IN  IF close.kind # "ok" THEN close
        ELSE Ok(propagateFromSubject(propagateFromTarget(close.g, self, concept),
                                     self, concept),
                triple, FALSE)

\* addBroadMatch up to its write: the four tests.
addBroadMatch_checks(g, self, concept) ==
    LET triple == _easyTriple(self, concept, "broadMatch")
        refl   == _testReflexive(triple, TRUE)
    IN  IF refl = "raise" THEN Raise(g, "ReflexiveError", triple, FALSE)
        ELSE IF _testSameScheme(g, self, concept)
             THEN Raise(g, "ImproperMappingError", triple, FALSE)
        ELSE IF <<self, "relatedMatch", concept>> \in g
                \/ <<concept, "relatedMatch", self>> \in g
             THEN Raise(g, "DisjointRelationError", triple, FALSE)
        ELSE IF <<self, "exactMatch", concept>> \in g
                \/ <<concept, "exactMatch", self>> \in g
             THEN Raise(g, "DisjointMatchError", triple, FALSE)
        ELSE Ok(g, triple, FALSE)

\* addBroadMatch from its write on.
addBroadMatch_writes(g, self, concept) ==
    LET triple == _easyTriple(self, concept, "broadMatch")
    IN  Ok(_addRelationship(g, triple, <<concept, "narrowMatch", self>>), triple, FALSE)

removeBroadMatch(g, self, concept) ==
    LET triple == _easyTriple(self, concept, "broadMatch")
    IN  Ok(remove(remove(g, triple), <<concept, "narrowMatch", self>>), triple, FALSE)

\* (mutant) the broadMatch triple of the other concept stays.
removeNarrowMatch_forwardOnly(g, self, concept) ==
    LET triple == _easyTriple(self, concept, "narrowMatch")
    IN  Ok(remove(g, triple), triple, FALSE)

removeNarrowMatch(g, self, concept) ==
    LET triple == _easyTriple(self, concept, "narrowMatch")
    IN  Ok(remove(remove(g, triple), <<concept, "broadMatch", self>>), triple, FALSE)

removeRelatedMatch(g, self, concept) ==
    LET triple == _easyTriple(self, concept, "relatedMatch")
    IN  Ok(remove(remove(g, triple), <<concept, "relatedMatch", self>>), triple, FALSE)

\* (mutant) the closeMatch pair goes with the exactMatch pair.
removeExactMatch_withClose(g, self, concept) ==
    LET triple == _easyTriple(self, concept, "exactMatch")
    IN  Ok(g \ {triple, <<concept, "exactMatch", self>>,
                <<self, "closeMatch", concept>>, <<concept, "closeMatch", self>>},
           triple, FALSE)

removeExactMatch(g, self, concept) ==
    LET triple == _easyTriple(self, concept, "exactMatch")
    IN  Ok(remove(remove(g, triple), <<concept, "exactMatch", self>>), triple, FALSE)

\* removeCloseMatch without its call of removeExactMatch.
removeCloseMatch_closeOnly(g, self, concept) ==
    LET triple == _easyTriple(self, concept, "closeMatch")
    IN  Ok(remove(remove(g, triple), <<concept, "closeMatch", self>>), triple, FALSE)

\* The closeMatch pair, then removeExactMatch; the closeMatch triple is returned.
removeCloseMatch(g, self, concept) ==
    LET triple == _easyTriple(self, concept, "closeMatch")
        g1     == remove(remove(g, triple), <<concept, "closeMatch", self>>)
    IN  Ok(removeExactMatch(g1, self, concept).g, triple, FALSE)

-----------------------------------------------------------------------------
(* Labels *)

\* _cleanUpPlainLiteral: a str takes the requested tag. An rdflib Literal is
\* a str as well, so it takes the same branch, and a literal built from a
\* literal has the requested tag or, when none is requested, the tag of the
\* literal it is built from.
_cleanUpPlainLiteral(literal, lang) ==
    IF literal.t = "str" THEN PlainLiteral(literal.v, lang)
    ELSE IF lang # NoLang THEN PlainLiteral(literal.v, lang)
    ELSE PlainLiteral(literal.v, literal.lang)

\* _addLabel without its scan of the labels.
_addLabel_unscanned(g, self, predicate, literal, lang) ==
    LET triple == <<self, predicate, _cleanUpPlainLiteral(literal, lang)>>
    IN  Ok(_addTriple(g, triple), triple, FALSE)

\* _addLabel scanning only the labels of the other kinds.
_addLabel_otherKinds(g, self, predicate, literal, lang) ==
    LET newLiteral == _cleanUpPlainLiteral(literal, lang)
        triple     == <<self, predicate, newLiteral>>
    IN  IF \E label \in SKOSLabels \ {predicate} : newLiteral \in objects(g, self, label)
        THEN Raise(g, "ConflictingLabelError", triple, FALSE)
        ELSE Ok(_addTriple(g, triple), triple, FALSE)

\* Concept._addLabel: the normalized literal must not already be a label of
\* any kind of this subject.
_addLabel(g, self, predicate, literal, lang) ==
    LET newLiteral == _cleanUpPlainLiteral(literal, lang)
        triple     == <<self, predicate, newLiteral>>
    IN  IF \E label \in SKOSLabels : newLiteral \in objects(g, self, label)
        THEN Raise(g, "ConflictingLabelError", triple, FALSE)
        ELSE Ok(_addTriple(g, triple), triple, FALSE)

addAltLabel(g, self, literal, lang) == _addLabel(g, self, "altLabel", literal, lang)

addHiddenLabel(g, self, literal, lang) == _addLabel(g, self, "hiddenLabel", literal, lang)

\* The preferred labels of self whose language is lang (the lang argument as
\* given, not the tag the new literal ends up with).
sameLanguage(g, self, lang) == {pl \in objects(g, self, "prefLabel") : pl.lang = lang}

\* addPrefLabel whose scan removes nothing when replace is set.
addPrefLabel_keepOld(g, self, literal, lang, replace, first) ==
    IF sameLanguage(g, self, lang) # {} /\ ~replace
    THEN Raise(g, "RedundantLabelError", <<self, "prefLabel", first>>, FALSE)
    ELSE _addLabel(g, self, "prefLabel", literal, lang)

\* Concept.addPrefLabel. `first` is the label of sameLanguage the scan meets
\* first: without replace the scan raises on it; with replace every label of
\* sameLanguage is removed, and only then does _addLabel run its own test.
addPrefLabel(g, self, literal, lang, replace, first) ==
    LET same == sameLanguage(g, self, lang)
    IN  IF same # {} /\ ~replace
        THEN Raise(g, "RedundantLabelError", <<self, "prefLabel", first>>, FALSE)
        ELSE _addLabel(g \ {<<self, "prefLabel", pl>> : pl \in same},
                       self, "prefLabel", literal, lang)

\* Concept.removePrefLabel: removes the first label met with that language.
removePrefLabel(g, self, language, first) ==
    IF sameLanguage(g, self, language) # {}
    THEN Ok(remove(g, <<self, "prefLabel", first>>), <<self, "prefLabel", first>>, FALSE)
    ELSE Ok(g, NoTriple, FALSE)

\* The labels a scan for `lang` may meet first (a placeholder when none).
firstMet(g, self, lang) ==
    IF sameLanguage(g, self, lang) = {} THEN {PlainLiteral("-", NoLang)}
    ELSE sameLanguage(g, self, lang)

-----------------------------------------------------------------------------
(* Notes *)

\* isinstance(x, str): rdflib's URIRef, BNode and Literal are subclasses of
\* str (rdflib.term.Identifier derives from str).
isinstance_str(x) == x.t \in {"str", "lit", "uri", "bnode"}

\* The method returned newNote; `warned` when the predicate was not a note
\* predicate.
NoteAdded(g, newNote, warned) ==
    [g |-> g, kind |-> "ok", tpl |-> NoTriple, warned |-> warned, ret |-> newNote]

\* Concept.addNote: the first test holds of every str, so of a URIRef and a
\* BNode too, and the branch that keeps them as they are is never taken; the
\* note is written under the predicate when it is in SKOSNotes, under
\* skos:note with a warning otherwise.
addNote(g, self, note, lang, predicate) ==
    LET newNote == IF isinstance_str(note) \/ note.t = "lit"
                   THEN _cleanUpPlainLiteral(note, lang)
                   ELSE IF note.t \in {"bnode", "uri"} THEN note
                   ELSE PlainLiteral(note.v, lang)
    IN  IF predicate \in SKOSNotes
        THEN NoteAdded(_addTriple(g, <<self, predicate, newNote>>), newNote, FALSE)
        ELSE NoteAdded(_addTriple(g, <<self, "note", newNote>>), newNote, TRUE)

addChangeNote(g, self, note, lang) == addNote(g, self, note, lang, "changeNote")

addDefinition(g, self, note, lang) == addNote(g, self, note, lang, "definition")

addEditorialNote(g, self, note, lang) == addNote(g, self, note, lang, "editorialNote")

addExample(g, self, note, lang) == addNote(g, self, note, lang, "example")

addHistoryNote(g, self, note, lang) == addNote(g, self, note, lang, "historyNote")

addScopeNote(g, self, note, lang) == addNote(g, self, note, lang, "scopeNote")

-----------------------------------------------------------------------------
(* ConceptScheme and scheme membership *)

\* ConceptScheme.addConcept: unconditional.
addConcept(g, self, concept) ==
    LET triple == <<concept, "inScheme", self>>
    IN  Ok(_addTriple(g, triple), triple, FALSE)

\* Concept.addToScheme
addToScheme(g, self, scheme) == addConcept(g, scheme, self)

\* Concept.removeFromConceptScheme. SKOS.hasConcept is no term of the SKOS
\* vocabulary: under a closed SKOS namespace (closedNamespace) looking it up
\* raises after the inScheme triple is gone; under an open one the lookup
\* yields a URI, no such triple exists and the method runs to its end.
removeFromConceptScheme(g, self, scheme, closedNamespace) ==
    LET triple == _easyTriple(self, scheme, "inScheme")
        g1     == remove(g, triple)
    IN  IF closedNamespace THEN Raise(g1, "AttributeError", NoTriple, FALSE)
        ELSE Ok(remove(remove(g1, <<scheme, "hasConcept", self>>),
                       <<self, "topConceptOf", scheme>>), triple, FALSE)

\* addTopConcept without its test of the broader concepts.
addTopConcept_untested(g, self, concept) ==
    LET triple == _easyTriple(self, concept, "hasTopConcept")
        g1 == _addTriple(_addTriple(g, triple), <<concept, "topConceptOf", self>>)
    IN  Ok(addConcept(g1, self, concept).g, triple, FALSE)

\* addTopConcept without the topConceptOf triple.
addTopConcept_oneWay(g, self, concept) ==
    LET triple == _easyTriple(self, concept, "hasTopConcept")
        allBroaderConcepts ==
            getBroaderConcepts(g, concept)
            \cup getBroaderTransitiveConcepts(g, concept)
            \cup subjects(g, "narrower", concept)
            \cup subjects(g, "narrowerTransitive", concept)
        inSameScheme ==
            \E bigConcept \in allBroaderConcepts : <<bigConcept, "inScheme", self>> \in g
    IN  IF inSameScheme
        THEN Raise(g, "TopConceptError", triple, FALSE)
        ELSE Ok(addConcept(_addTriple(g, triple), self, concept).g, triple, FALSE)

\* ConceptScheme.addTopConcept: rejected when a concept broader than the
\* candidate (by its broader or broaderTransitive triples, or by a narrower or
\* narrowerTransitive triple pointing at it) is in this scheme.
addTopConcept(g, self, concept) ==
    LET triple == _easyTriple(self, concept, "hasTopConcept")
        allBroaderConcepts ==
            getBroaderConcepts(g, concept)
            \cup getBroaderTransitiveConcepts(g, concept)
            \cup subjects(g, "narrower", concept)
            \cup subjects(g, "narrowerTransitive", concept)
        hasBroaderConcept == allBroaderConcepts # {}
        inSameScheme ==
            \E bigConcept \in allBroaderConcepts : <<bigConcept, "inScheme", self>> \in g
        g1 == _addTriple(_addTriple(g, triple), <<concept, "topConceptOf", self>>)
    IN  IF hasBroaderConcept /\ inSameScheme
        THEN Raise(g, "TopConceptError", triple, FALSE)
        ELSE Ok(addConcept(g1, self, concept).g, triple, FALSE)

\* (mutant) the subjects of the whole store are scanned.
getConceptsByLabel_anyScheme(g, self, label, prefLabelOnly) ==
    LET newLabel == _cleanUpPlainLiteral(label, NoLang)
        addSubjectsToList(p, o) == {tr[1] : tr \in {u \in g : u[2] = p /\ u[3] = o}}
    IN  Returned(g, IF prefLabelOnly
                    THEN addSubjectsToList("prefLabel", newLabel)
                    ELSE UNION {addSubjectsToList(skosLabel, newLabel) :
                                skosLabel \in SKOSLabels})

\* ConceptScheme.getConceptsByLabel: the label is normalized with no
\* language requested; the subjects inScheme of self.uri are scanned for the
\* triple (subj, p, newLabel), p the prefLabel or each label kind in turn.
getConceptsByLabel(g, self, label, prefLabelOnly) ==
    LET newLabel == _cleanUpPlainLiteral(label, NoLang)
        addSubjectsToList(p, o) ==
            {subj \in subjects(g, "inScheme", self) : <<subj, p, o>> \in g}
    IN  Returned(g, IF prefLabelOnly
                    THEN addSubjectsToList("prefLabel", newLabel)
                    ELSE UNION {addSubjectsToList(skosLabel, newLabel) :
                                skosLabel \in SKOSLabels})

-----------------------------------------------------------------------------
(* SKOSSubject, and the constructors of the three kinds *)

\* The rdf:type triple of each class.
TypeTriple(uri, cls) == <<uri, "rdf:type", URIRef("skos:" \o cls)>>

\* SKOSSubject.__init__: self.uri is the URIRef passed, or the URIRef made
\* of what was passed.
SKOSSubject_init(URI) == IF URI.t = "uri" THEN URI ELSE URIRef(URI.v)

\* Concept.__init__ without its test for a Collection.
Concept_init_schemeOnly(g, URI) ==
    LET uri    == SKOSSubject_init(URI)
        triple == TypeTriple(uri, "Concept")
    IN  IF TypeTriple(uri, "ConceptScheme") \notin g
        THEN Ok(_addTriple(g, triple), triple, FALSE)
        ELSE Raise(g, "SchemeConceptError", triple, FALSE)

\* Concept.__init__
Concept_init(g, URI) ==
    LET uri    == SKOSSubject_init(URI)
        triple == TypeTriple(uri, "Concept")
        notAConceptScheme == TypeTriple(uri, "ConceptScheme") \notin g
        notACollection    == TypeTriple(uri, "Collection") \notin g
    IN  IF notAConceptScheme /\ notACollection
        THEN Ok(_addTriple(g, triple), triple, FALSE)
        ELSE Raise(g, "SchemeConceptError", triple, FALSE)

\* ConceptScheme.__init__
ConceptScheme_init(g, URI) ==
    LET uri    == SKOSSubject_init(URI)
        triple == TypeTriple(uri, "ConceptScheme")
        notAConcept    == TypeTriple(uri, "Concept") \notin g
        notACollection == TypeTriple(uri, "Collection") \notin g
    IN  IF notAConcept /\ notACollection
        THEN Ok(_addTriple(g, triple), triple, FALSE)
        ELSE Raise(g, "SchemeConceptError", triple, FALSE)

\* Collection.__init__: a URIRef or BNode is kept, None becomes the blank
\* node rdflib.BNode() returns (fresh), anything else a URIRef.
Collection_init(g, URI, fresh) ==
    LET uri    == IF URI.t \in {"uri", "bnode"} THEN URI
                  ELSE IF URI = None THEN fresh
                  ELSE URIRef(URI.v)
        triple == TypeTriple(uri, "Collection")
        notAConcept       == TypeTriple(uri, "Concept") \notin g
        notAConceptScheme == TypeTriple(uri, "ConceptScheme") \notin g
    IN  IF notAConcept /\ notAConceptScheme
        THEN Ok(_addTriple(g, triple), triple, FALSE)
        ELSE Raise(g, "SchemeConceptError", triple, FALSE)

\* (mutant) the new literal is looked for among the preferred labels only.
Collection_addPrefLabel_prefOnly(g, self, literal, lang, replace, first) ==
    LET same == sameLanguage(g, self, lang)
        g1   == g \ {<<self, "prefLabel", pl>> : pl \in same}
        newLiteral == _cleanUpPlainLiteral(literal, lang)
        triple     == <<self, "prefLabel", newLiteral>>
    IN  IF same # {} /\ ~replace
        THEN Raise(g, "RedundantLabelError", <<self, "prefLabel", first>>, FALSE)
        ELSE IF newLiteral \in objects(g1, self, "prefLabel")
             THEN Raise(g1, "ConflictingLabelError", triple, FALSE)
        ELSE Ok(_addTriple(g1, triple), triple, FALSE)

\* Collection.addPrefLabel: its own scan of the preferred labels for one of
\* the language lang (raise on the first met, or remove each with replace),
\* then its own copy of the scan of the labels of every kind.
Collection_addPrefLabel(g, self, literal, lang, replace, first) ==
    LET same == sameLanguage(g, self, lang)
        g1   == g \ {<<self, "prefLabel", pl>> : pl \in same}
        newLiteral == _cleanUpPlainLiteral(literal, lang)
        triple     == <<self, "prefLabel", newLiteral>>
    IN  IF same # {} /\ ~replace
        THEN Raise(g, "RedundantLabelError", <<self, "prefLabel", first>>, FALSE)
        ELSE IF \E label \in SKOSLabels : newLiteral \in objects(g1, self, label)
             THEN Raise(g1, "ConflictingLabelError", triple, FALSE)
        ELSE Ok(_addTriple(g1, triple), triple, FALSE)

\* The blank nodes rdflib.BNode() can return: those not in use.
freshBNodes(g, h) ==
    {b \in BNodes : /\ \A tr \in g : tr[1] # b /\ tr[3] # b
                    /\ \A o \in h : o.uri # b}

\* (mutant) only the triples self.uri is the subject of.
getAllTriples_asSubject(g, self) == {tr \in g : tr[1] = self}

\* SKOSSubject.getAllTriples: the triples with self.uri as subject or object.
getAllTriples(g, self) == {tr \in g : tr[1] = self} \cup {tr \in g : tr[3] = self}

\* SKOSSubject.updateURI: every triple about self.uri is removed and added
\* again with the new URI in its place. No test of what the new URI is
\* already used for. Returns the new URI, no triple.
updateURI(g, self, newURI) ==
    LET updatedURI == easyURI(newURI)
        allTriples == getAllTriples(g, self)
        newTriples == {<<IF tr[1] = self THEN updatedURI ELSE tr[1], tr[2],
                         IF tr[3] = self THEN updatedURI ELSE tr[3]>> :
                       tr \in allTriples}
    IN  Ok((g \ allTriples) \cup newTriples, NoTriple, FALSE)

-----------------------------------------------------------------------------
(* The caller *)

\* One call: the store, the record of the call, its outcome, and the
\* objects the caller holds when it ends.
CallOn(op, self, arg, lang, flag, r, h) ==
    /\ budget > 0
    /\ graph' = r.g
    /\ before' = graph
    /\ lastOp' = [op |-> op, self |-> self, arg |-> arg, lang |-> lang, flag |-> flag]
    /\ result' = IF "ret" \in DOMAIN r
                 THEN [kind |-> r.kind, tpl |-> r.tpl, warned |-> r.warned,
                       ret |-> r.ret]
                 ELSE [kind |-> r.kind, tpl |-> r.tpl, warned |-> r.warned]
    /\ budget' = budget - 1
    /\ held' = h
    /\ inflight' = inflight

\* A call of a method that constructs no object and changes no self.uri.
Call(op, self, arg, lang, flag, r) == CallOn(op, self, arg, lang, flag, r, held)

AddBroader(a, b, irr) ==
    Call("addBroader", a, b, NoLang, irr, addBroader(graph, a, b, irr))

AddNarrower(a, b, irr) ==
    Call("addNarrower", a, b, NoLang, irr, addNarrower(graph, a, b, irr))

AddRelated(a, b, irr) ==
    Call("addRelated", a, b, NoLang, irr, addRelated(graph, a, b, irr))

RemoveBroaderConcept(a, b) ==
    Call("removeBroaderConcept", a, b, NoLang, FALSE, removeBroaderConcept(graph, a, b))

RemoveNarrower(a, b) ==
    Call("removeNarrower", a, b, NoLang, FALSE, removeNarrower(graph, a, b))

RemoveRelated(a, b) ==
    Call("removeRelated", a, b, NoLang, FALSE, removeRelated(graph, a, b))

AddConcept(s, c) ==
    Call("addConcept", s, c, NoLang, FALSE, addConcept(graph, s, c))

AddToScheme(c, s) ==
    Call("addToScheme", c, s, NoLang, FALSE, addToScheme(graph, c, s))

RemoveFromConceptScheme(c, s, closed) ==
    Call("removeFromConceptScheme", c, s, NoLang, closed,
         removeFromConceptScheme(graph, c, s, closed))

AddTopConcept(s, c) ==
    Call("addTopConcept", s, c, NoLang, FALSE, addTopConcept(graph, s, c))

AddBroaderTransitive(a, b, irr) ==
    Call("addBroaderTransitive", a, b, NoLang, irr, addBroaderTransitive(graph, a, b, irr))

AddNarrowerTransitive(a, b, irr) ==
    Call("addNarrowerTransitive", a, b, NoLang, irr,
         addNarrowerTransitive(graph, a, b, irr))

AddNotation(a, notation) ==
    Call("addNotation", a, notation, NoLang, FALSE, addNotation(graph, a, notation))

\* addNote: the predicate argument is recorded as the flag of the call.
AddNote(a, note, lang, predicate) ==
    Call("addNote", a, note, lang, predicate, addNote(graph, a, note, lang, predicate))

AddChangeNote(a, note, lang) ==
    Call("addChangeNote", a, note, lang, FALSE, addChangeNote(graph, a, note, lang))

AddDefinition(a, note, lang) ==
    Call("addDefinition", a, note, lang, FALSE, addDefinition(graph, a, note, lang))

AddEditorialNote(a, note, lang) ==
    Call("addEditorialNote", a, note, lang, FALSE, addEditorialNote(graph, a, note, lang))

AddExample(a, note, lang) ==
    Call("addExample", a, note, lang, FALSE, addExample(graph, a, note, lang))

AddHistoryNote(a, note, lang) ==
    Call("addHistoryNote", a, note, lang, FALSE, addHistoryNote(graph, a, note, lang))

AddScopeNote(a, note, lang) ==
    Call("addScopeNote", a, note, lang, FALSE, addScopeNote(graph, a, note, lang))

GetConceptsByLabel(s, label, prefLabelOnly) ==
    Call("getConceptsByLabel", s, label, NoLang, prefLabelOnly,
         getConceptsByLabel(graph, s, label, prefLabelOnly))

AddBroadMatch(a, b) ==
    Call("addBroadMatch", a, b, NoLang, FALSE, addBroadMatch(graph, a, b))

AddNarrowMatch(a, b) ==
    Call("addNarrowMatch", a, b, NoLang, FALSE, addNarrowMatch(graph, a, b))

AddCloseMatch(a, b) ==
    Call("addCloseMatch", a, b, NoLang, FALSE, addCloseMatch(graph, a, b))

AddExactMatch(a, b) ==
    Call("addExactMatch", a, b, NoLang, FALSE, addExactMatch(graph, a, b))

AddRelatedMatch(a, b) ==
    Call("addRelatedMatch", a, b, NoLang, FALSE, addRelatedMatch(graph, a, b))

RemoveBroadMatch(a, b) ==
    Call("removeBroadMatch", a, b, NoLang, FALSE, removeBroadMatch(graph, a, b))

RemoveNarrowMatch(a, b) ==
    Call("removeNarrowMatch", a, b, NoLang, FALSE, removeNarrowMatch(graph, a, b))

RemoveRelatedMatch(a, b) ==
    Call("removeRelatedMatch", a, b, NoLang, FALSE, removeRelatedMatch(graph, a, b))

RemoveExactMatch(a, b) ==
    Call("removeExactMatch", a, b, NoLang, FALSE, removeExactMatch(graph, a, b))

RemoveCloseMatch(a, b) ==
    Call("removeCloseMatch", a, b, NoLang, FALSE, removeCloseMatch(graph, a, b))

AddAltLabel(a, lit, lang) ==
    Call("addAltLabel", a, lit, lang, FALSE, addAltLabel(graph, a, lit, lang))

AddHiddenLabel(a, lit, lang) ==
    Call("addHiddenLabel", a, lit, lang, FALSE, addHiddenLabel(graph, a, lit, lang))

AddPrefLabel(a, lit, lang, replace) ==
    \E first \in firstMet(graph, a, lang) :
        Call("addPrefLabel", a, lit, lang, replace,
             addPrefLabel(graph, a, lit, lang, replace, first))

RemovePrefLabel(a, lang) ==
    \E first \in firstMet(graph, a, lang) :
        Call("removePrefLabel", a, PlainLiteral("-", NoLang), lang, FALSE,
             removePrefLabel(graph, a, lang, first))

\* The caller holds the object when its constructor returns.
Constructs(cls, r) ==
    IF r.kind = "ok" THEN held \cup {[cls |-> cls, uri |-> r.tpl[1]]} ELSE held

NewConcept(URI) ==
    LET r == Concept_init(graph, URI)
    IN  CallOn("Concept", r.tpl[1], URI, NoLang, FALSE, r, Constructs("Concept", r))

NewConceptScheme(URI) ==
    LET r == ConceptScheme_init(graph, URI)
    IN  CallOn("ConceptScheme", r.tpl[1], URI, NoLang, FALSE, r,
               Constructs("ConceptScheme", r))

NewCollection(URI) ==
    \E fresh \in IF URI = None THEN freshBNodes(graph, held) ELSE {None} :
        LET r == Collection_init(graph, URI, fresh)
        IN  CallOn("Collection", r.tpl[1], URI, NoLang, FALSE, r,
                   Constructs("Collection", r))

CollectionAddPrefLabel(k, lit, lang, replace) ==
    \E first \in firstMet(graph, k, lang) :
        Call("Collection.addPrefLabel", k, lit, lang, replace,
             Collection_addPrefLabel(graph, k, lit, lang, replace, first))

\* The two callers of the concurrent runs, named after the call each makes.
Callers == {"exact", "broad"}

\* One caller making one call after the other: nothing is ever in flight.
OneCaller == [atomic |-> TRUE, clean |-> TRUE, pc |-> [c \in Callers |-> "idle"]]

\* The call each concurrent caller makes, on the same pair of concepts.
RaceSubject == URIRef("A")

RaceTarget == URIRef("B")

MethodOf(c) == IF c = "exact" THEN "addExactMatch" ELSE "addBroadMatch"

ChecksOf(c, g) ==
    IF c = "exact" THEN addExactMatch_checks(g, RaceSubject, RaceTarget)
    ELSE addBroadMatch_checks(g, RaceSubject, RaceTarget)

WritesOf(c, g) ==
    IF c = "exact" THEN addExactMatch_writes(g, RaceSubject, RaceTarget)
    ELSE addBroadMatch_writes(g, RaceSubject, RaceTarget)

WholeOf(c, g) ==
    IF c = "exact" THEN addExactMatch(g, RaceSubject, RaceTarget)
    ELSE addBroadMatch(g, RaceSubject, RaceTarget)

\* No mapping triple links the two concepts of the race in store g.
NoMatchBetween(g) ==
    \A tr \in g :
        tr[2] \in SKOSMappingRelations
        => {tr[1], tr[3]} # {RaceSubject, RaceTarget}

\* A step of caller c: the part `phase` of its call ends as r and leaves the
\* caller at `at`. The first step of the two callers records whether the
\* store had a match between the two concepts.
RaceStep(c, phase, r, at) ==
    /\ graph' = r.g
    /\ before' = graph
    /\ lastOp' = [op |-> MethodOf(c), self |-> RaceSubject, arg |-> RaceTarget,
                  lang |-> phase, flag |-> FALSE]
    /\ result' = [kind |-> r.kind, tpl |-> r.tpl, warned |-> r.warned]
    /\ inflight' = [inflight EXCEPT
                       !.pc[c] = at,
                       !.clean = IF \A d \in Callers : inflight.pc[d] = "idle"
                                 THEN NoMatchBetween(graph) ELSE @]
    /\ UNCHANGED <<budget, held>>

\* The call of caller c as one step.
WholeCall(c) ==
    /\ inflight.atomic
    /\ inflight.pc[c] = "idle"
    /\ LET r == WholeOf(c, graph)
       IN  RaceStep(c, "whole", r, IF r.kind = "ok" THEN "committed" ELSE "rejected")

\* The tests of the call of caller c, other callers free to run before its
\* writes.
Checks(c) ==
    /\ ~inflight.atomic
    /\ inflight.pc[c] = "idle"
    /\ LET r == ChecksOf(c, graph)
       IN  RaceStep(c, "checks", r, IF r.kind = "ok" THEN "checked" ELSE "rejected")

\* The writes of the call of caller c, its tests passed earlier.
Writes(c) ==
    /\ ~inflight.atomic
    /\ inflight.pc[c] = "checked"
    /\ LET r == WritesOf(c, graph)
       IN  RaceStep(c, "writes", r, IF r.kind = "ok" THEN "committed" ELSE "rejected")

\* A call made before the two callers start.
Beforehand == \A c \in Callers : inflight.pc[c] = "idle"

\* obj.updateURI(newURI) on an object the caller holds: the store is
\* rewritten and the object's self.uri set.
UpdateURI(obj, newURI) ==
    /\ obj \in held
    /\ CallOn("updateURI", obj.uri, newURI, NoLang, FALSE,
              updateURI(graph, obj.uri, newURI),
              (held \ {obj}) \cup {[cls |-> obj.cls, uri |-> easyURI(newURI)]})

\* The objects of class cls the caller holds.
Held(cls) == {o \in held : o.cls = cls}

-----------------------------------------------------------------------------
(* Specifications *)

\* No call made yet.
NoCall ==
    [op |-> "init", self |-> URIRef("-"), arg |-> URIRef("-"),
     lang |-> NoLang, flag |-> FALSE]

\* The store after the caller has constructed Concept objects on concepts
\* and ConceptScheme objects on schemes: one rdf:type triple each.
ConstructedOn(concepts, schemes, n) ==
    /\ graph = {<<c, "rdf:type", URIRef("skos:Concept")>> : c \in concepts}
               \cup {<<s, "rdf:type", URIRef("skos:ConceptScheme")>> : s \in schemes}
    /\ before = graph
    /\ lastOp = NoCall
    /\ result = [kind |-> "ok", tpl |-> NoTriple, warned |-> FALSE]
    /\ budget = n
    /\ held = {[cls |-> "Concept", uri |-> c] : c \in concepts}
              \cup {[cls |-> "ConceptScheme", uri |-> s] : s \in schemes}
    /\ inflight = OneCaller

\* ... on the Concepts and Schemes of the runs.
Constructed(n) == ConstructedOn(Concepts, Schemes, n)

\* Semantic relations and scheme membership.
NextSem ==
    \/ \E a, b \in Concepts, irr \in BOOLEAN : AddBroader(a, b, irr)
    \/ \E a, b \in Concepts, irr \in BOOLEAN : AddNarrower(a, b, irr)
    \/ \E a, b \in Concepts, irr \in BOOLEAN : AddRelated(a, b, irr)
    \/ \E a, b \in Concepts : RemoveBroaderConcept(a, b)
    \/ \E a, b \in Concepts : RemoveNarrower(a, b)
    \/ \E a, b \in Concepts : RemoveRelated(a, b)
    \/ \E s \in Schemes, c \in Concepts : AddConcept(s, c)
    \/ \E s \in Schemes, c \in Concepts, closed \in BOOLEAN :
          RemoveFromConceptScheme(c, s, closed)

InitSem == Constructed(MaxOpsSem)

SpecSem == InitSem /\ [][NextSem]_vars

\* Scheme membership and top concepts, with the hierarchy they depend on.
NextScheme ==
    \/ \E s \in Schemes, c \in Concepts : AddConcept(s, c)
    \/ \E s \in Schemes, c \in Concepts : AddToScheme(c, s)
    \/ \E s \in Schemes, c \in Concepts : AddTopConcept(s, c)
    \/ \E s \in Schemes, c \in Concepts, closed \in BOOLEAN :
          RemoveFromConceptScheme(c, s, closed)
    \/ \E a, b \in Concepts : AddBroader(a, b, FALSE)
    \/ \E a, b \in Concepts : AddNarrower(a, b, FALSE)
    \/ \E a, b \in Concepts : RemoveBroaderConcept(a, b)
    \/ \E a, b \in Concepts : RemoveNarrower(a, b)

InitScheme == Constructed(MaxOpsScheme)

SpecScheme == InitScheme /\ [][NextScheme]_vars

\* The hierarchy alone: broader and narrower, added and removed.
NextHier ==
    \/ \E a, b \in Concepts, irr \in BOOLEAN : AddBroader(a, b, irr)
    \/ \E a, b \in Concepts, irr \in BOOLEAN : AddNarrower(a, b, irr)
    \/ \E a, b \in Concepts : RemoveBroaderConcept(a, b)
    \/ \E a, b \in Concepts : RemoveNarrower(a, b)
    \/ \E s \in Schemes, c \in Concepts : AddConcept(s, c)

InitHier == Constructed(MaxOpsHier)

SpecHier == InitHier /\ [][NextHier]_vars

\* Mapping relations and scheme membership.
NextMap ==
    \/ \E a, b \in Concepts : AddBroadMatch(a, b)
    \/ \E a, b \in Concepts : AddNarrowMatch(a, b)
    \/ \E a, b \in Concepts : AddCloseMatch(a, b)
    \/ \E a, b \in Concepts : AddExactMatch(a, b)
    \/ \E a, b \in Concepts : AddRelatedMatch(a, b)
    \/ \E a, b \in Concepts : RemoveBroadMatch(a, b)
    \/ \E a, b \in Concepts : RemoveNarrowMatch(a, b)
    \/ \E a, b \in Concepts : RemoveRelatedMatch(a, b)
    \/ \E a, b \in Concepts : RemoveExactMatch(a, b)
    \/ \E a, b \in Concepts : RemoveCloseMatch(a, b)
    \/ \E s \in Schemes, c \in Concepts : AddConcept(s, c)
    \/ \E s \in Schemes, c \in Concepts, closed \in BOOLEAN :
          RemoveFromConceptScheme(c, s, closed)

InitMap == Constructed(MaxOpsMap)

SpecMap == InitMap /\ [][NextMap]_vars

\* The mapping adds alone, with concepts joining schemes between them.
NextMapAdd ==
    \/ \E a, b \in Concepts : AddBroadMatch(a, b)
    \/ \E a, b \in Concepts : AddNarrowMatch(a, b)
    \/ \E a, b \in Concepts : AddCloseMatch(a, b)
    \/ \E a, b \in Concepts : AddExactMatch(a, b)
    \/ \E a, b \in Concepts : AddRelatedMatch(a, b)
    \/ \E s \in Schemes, c \in Concepts : AddConcept(s, c)

InitMapAdd == Constructed(MaxOpsMapAdd)

SpecMapAdd == InitMapAdd /\ [][NextMapAdd]_vars

\* Labels of two concepts.
NextLabel ==
    \/ \E a \in LabelSubjects, lit \in LabelInputs, lang \in Langs :
          AddAltLabel(a, lit, lang)
    \/ \E a \in LabelSubjects, lit \in LabelInputs, lang \in Langs :
          AddHiddenLabel(a, lit, lang)
    \/ \E a \in LabelSubjects, lit \in LabelInputs, lang \in Langs, replace \in BOOLEAN :
          AddPrefLabel(a, lit, lang, replace)
    \/ \E a \in LabelSubjects, lang \in Langs : RemovePrefLabel(a, lang)

InitLabel == Constructed(MaxOpsLabel)

SpecLabel == InitLabel /\ [][NextLabel]_vars

\* Concepts put into any of three schemes and matched exactly.
NextChain ==
    \/ \E c \in Concepts, s \in ChainSchemes : AddToScheme(c, s)
    \/ \E a, b \in Concepts : AddExactMatch(a, b)

InitChain == ConstructedOn(Concepts, ChainSchemes, MaxOpsChain)

SpecChain == InitChain /\ [][NextChain]_vars

\* Exact matches alone, among four concepts.
NextExact == \E a, b \in GroupConcepts : AddExactMatch(a, b)

InitExact == ConstructedOn(GroupConcepts, Schemes, MaxOpsExact)

SpecExact == InitExact /\ [][NextExact]_vars

\* exactMatch and closeMatch, added and removed, with scheme membership.
NextClose ==
    \/ \E a, b \in Concepts : AddExactMatch(a, b)
    \/ \E a, b \in Concepts : AddCloseMatch(a, b)
    \/ \E a, b \in Concepts : RemoveExactMatch(a, b)
    \/ \E a, b \in Concepts : RemoveCloseMatch(a, b)
    \/ \E s \in Schemes, c \in Concepts : AddConcept(s, c)

InitClose == Constructed(MaxOpsClose)

SpecClose == InitClose /\ [][NextClose]_vars

\* The labels of one concept: preferred, alternate and hidden.
NextPref ==
    \/ \E lit \in LabelInputs, lang \in Langs, replace \in BOOLEAN :
          AddPrefLabel(URIRef("A"), lit, lang, replace)
    \/ \E lit \in LabelInputs, lang \in Langs : AddAltLabel(URIRef("A"), lit, lang)
    \/ \E lit \in LabelInputs, lang \in Langs : AddHiddenLabel(URIRef("A"), lit, lang)
    \/ \E lang \in Langs : RemovePrefLabel(URIRef("A"), lang)

InitPref == Constructed(MaxOpsPref)

SpecPref == InitPref /\ [][NextPref]_vars

\* Every add of a relation or a label, with scheme membership.
NextTwice ==
    \/ \E a, b \in LabelSubjects, irr \in BOOLEAN : AddBroader(a, b, irr)
    \/ \E a, b \in LabelSubjects : a # b /\ AddNarrower(a, b, FALSE)
    \/ \E a, b \in LabelSubjects : a # b /\ AddRelated(a, b, FALSE)
    \/ \E a, b \in LabelSubjects : a # b /\ AddBroadMatch(a, b)
    \/ \E a, b \in LabelSubjects : a # b /\ AddNarrowMatch(a, b)
    \/ \E a, b \in LabelSubjects : a # b /\ AddCloseMatch(a, b)
    \/ \E a, b \in LabelSubjects : a # b /\ AddRelatedMatch(a, b)
    \/ \E a, b \in Concepts : a # b /\ AddExactMatch(a, b)
    \/ \E c \in Concepts : AddConcept(URIRef("S"), c)
    \/ \E lit \in LabelInputs, lang \in Langs, replace \in BOOLEAN :
          AddPrefLabel(URIRef("A"), lit, lang, replace)
    \/ \E lit \in LabelInputs : AddAltLabel(URIRef("A"), lit, NoLang)
    \/ \E lit \in LabelInputs : AddHiddenLabel(URIRef("A"), lit, NoLang)

InitTwice == ConstructedOn(Concepts, {URIRef("S")}, MaxOpsTwice)

SpecTwice == InitTwice /\ [][NextTwice]_vars

\* Labels given to concepts in and out of the schemes, and looked up.
NextQuery ==
    \/ \E s \in Schemes, c \in LabelSubjects : AddConcept(s, c)
    \/ \E a \in LabelSubjects, lit \in LabelInputs, lang \in Langs :
          AddPrefLabel(a, lit, lang, FALSE)
    \/ \E a \in LabelSubjects, lit \in LabelInputs : AddAltLabel(a, lit, NoLang)
    \/ \E s \in Schemes, label \in QueryInputs, prefLabelOnly \in BOOLEAN :
          GetConceptsByLabel(s, label, prefLabelOnly)

InitQuery == ConstructedOn(LabelSubjects, Schemes, MaxOpsQuery)

SpecQuery == InitQuery /\ [][NextQuery]_vars

\* Notes of every kind added to one concept.
NextNotes ==
    \/ \E note \in NoteInputs, lang \in Langs, predicate \in NotePredicates :
          AddNote(URIRef("A"), note, lang, predicate)
    \/ \E note \in NoteInputs, lang \in Langs : AddChangeNote(URIRef("A"), note, lang)
    \/ \E note \in NoteInputs, lang \in Langs : AddDefinition(URIRef("A"), note, lang)
    \/ \E note \in NoteInputs, lang \in Langs : AddEditorialNote(URIRef("A"), note, lang)
    \/ \E note \in NoteInputs, lang \in Langs : AddExample(URIRef("A"), note, lang)
    \/ \E note \in NoteInputs, lang \in Langs : AddHistoryNote(URIRef("A"), note, lang)
    \/ \E note \in NoteInputs, lang \in Langs : AddScopeNote(URIRef("A"), note, lang)

InitNotes == ConstructedOn({URIRef("A")}, {}, MaxOpsNotes)

SpecNotes == InitNotes /\ [][NextNotes]_vars

\* A Concept and a Collection constructed, labelled through the objects the
\* caller holds; the concept may be renamed to the collection's identifier.
NextColl ==
    \/ \E c \in Held("Concept"), lit \in LabelInputs, lang \in Langs, replace \in BOOLEAN :
          AddPrefLabel(c.uri, lit, lang, replace)
    \/ \E c \in Held("Concept"), lit \in LabelInputs : AddAltLabel(c.uri, lit, NoLang)
    \/ \E c \in Held("Concept"), lit \in LabelInputs : AddHiddenLabel(c.uri, lit, NoLang)
    \/ \E k \in Held("Collection"), lit \in LabelInputs, lang \in Langs,
          replace \in BOOLEAN :
          CollectionAddPrefLabel(k.uri, lit, lang, replace)
    \/ \E c \in Held("Concept") : UpdateURI(c, URIRef("K"))

InitColl ==
    /\ graph = {TypeTriple(URIRef("A"), "Concept"), TypeTriple(URIRef("K"), "Collection")}
    /\ before = graph
    /\ lastOp = NoCall
    /\ result = [kind |-> "ok", tpl |-> NoTriple, warned |-> FALSE]
    /\ budget = MaxOpsColl
    /\ held = {[cls |-> "Concept", uri |-> URIRef("A")],
               [cls |-> "Collection", uri |-> URIRef("K")]}
    /\ inflight = OneCaller

SpecColl == InitColl /\ [][NextColl]_vars

\* The operations left unimplemented, among operations that write
\* relations and notes under a predicate the caller names.
NextUnsupported ==
    \/ \E a, b \in LabelSubjects, irr \in BOOLEAN : AddBroaderTransitive(a, b, irr)
    \/ \E a, b \in LabelSubjects, irr \in BOOLEAN : AddNarrowerTransitive(a, b, irr)
    \/ \E a \in LabelSubjects, notation \in LabelInputs : AddNotation(a, notation)
    \/ \E a \in LabelSubjects, predicate \in UnsupportedPredicates :
          AddNote(a, Str("x"), NoLang, predicate)
    \/ \E a, b \in LabelSubjects : AddBroader(a, b, FALSE)
    \/ \E a, b \in LabelSubjects : AddNarrower(a, b, FALSE)
    \/ \E a, b \in LabelSubjects : AddExactMatch(a, b)
    \/ \E c \in LabelSubjects : AddConcept(URIRef("S"), c)
    \/ \E c \in LabelSubjects : AddTopConcept(URIRef("S"), c)

InitUnsupported == ConstructedOn(LabelSubjects, {URIRef("S")}, MaxOpsUnsupported)

SpecUnsupported == InitUnsupported /\ [][NextUnsupported]_vars

\* Relations of every kind added between concepts, and removed.
NextRemove ==
    \/ \E c \in LabelSubjects : AddConcept(URIRef("S"), c)
    \/ \E a, b \in LabelSubjects : a # b /\ AddBroader(a, b, FALSE)
    \/ \E a, b \in LabelSubjects : a # b /\ AddRelated(a, b, FALSE)
    \/ \E a, b \in LabelSubjects : a # b /\ AddBroadMatch(a, b)
    \/ \E a, b \in LabelSubjects : a # b /\ AddRelatedMatch(a, b)
    \/ \E a, b \in Concepts : a # b /\ AddExactMatch(a, b)
    \/ \E a, b \in LabelSubjects : RemoveBroaderConcept(a, b)
    \/ \E a, b \in LabelSubjects : RemoveNarrower(a, b)
    \/ \E a, b \in LabelSubjects : RemoveRelated(a, b)
    \/ \E a, b \in LabelSubjects : RemoveBroadMatch(a, b)
    \/ \E a, b \in LabelSubjects : RemoveNarrowMatch(a, b)
    \/ \E a, b \in LabelSubjects : RemoveRelatedMatch(a, b)
    \/ \E a, b \in LabelSubjects : RemoveCloseMatch(a, b)
    \/ \E a, b \in LabelSubjects : RemoveExactMatch(a, b)

InitRemove == ConstructedOn(Concepts, {URIRef("S")}, MaxOpsRemove)

SpecRemove == InitRemove /\ [][NextRemove]_vars

\* Two callers, one adding an exactMatch and one a broadMatch between the
\* same two concepts, after a store was built; each call is one step in the
\* runs that start atomic, two steps (tests, writes) in the others.
NextRace ==
    \/ \E a, b \in Concepts : a # b /\ Beforehand /\ AddExactMatch(a, b)
    \/ \E s \in Schemes, c \in Concepts : Beforehand /\ AddConcept(s, c)
    \/ \E c \in Callers : WholeCall(c)
    \/ \E c \in Callers : Checks(c)
    \/ \E c \in Callers : Writes(c)

InitRace ==
    /\ graph = {<<c, "rdf:type", URIRef("skos:Concept")>> : c \in Concepts}
               \cup {<<s, "rdf:type", URIRef("skos:ConceptScheme")>> : s \in Schemes}
    /\ before = graph
    /\ lastOp = NoCall
    /\ result = [kind |-> "ok", tpl |-> NoTriple, warned |-> FALSE]
    /\ budget = MaxOpsRace
    /\ held = {[cls |-> "Concept", uri |-> c] : c \in Concepts}
              \cup {[cls |-> "ConceptScheme", uri |-> s] : s \in Schemes}
    /\ \E atomic \in BOOLEAN : inflight = [OneCaller EXCEPT !.atomic = atomic]

SpecRace == InitRace /\ [][NextRace]_vars

\* The symmetric relations and the broadMatch/narrowMatch pair, added and
\* removed between two concepts in or out of a scheme.
NextInverse ==
    \/ \E a, b \in LabelSubjects : AddRelated(a, b, FALSE)
    \/ \E a, b \in LabelSubjects : AddRelatedMatch(a, b)
    \/ \E a, b \in LabelSubjects : AddBroadMatch(a, b)
    \/ \E a, b \in LabelSubjects : AddNarrowMatch(a, b)
    \/ \E a, b \in LabelSubjects : RemoveRelated(a, b)
    \/ \E a, b \in LabelSubjects : RemoveRelatedMatch(a, b)
    \/ \E a, b \in LabelSubjects : RemoveBroadMatch(a, b)
    \/ \E a, b \in LabelSubjects : RemoveNarrowMatch(a, b)
    \/ \E c \in LabelSubjects : AddConcept(URIRef("S"), c)

InitInverse == ConstructedOn(LabelSubjects, {URIRef("S")}, MaxOpsInverse)

SpecInverse == InitInverse /\ [][NextInverse]_vars

\* The store empty and no object constructed.
Empty(n) ==
    /\ graph = {}
    /\ before = graph
    /\ lastOp = NoCall
    /\ result = [kind |-> "ok", tpl |-> NoTriple, warned |-> FALSE]
    /\ budget = n
    /\ held = {}
    /\ inflight = OneCaller

\* Resources of the three kinds constructed on any identifier, renamed, and
\* mutated through the objects the caller holds.
NextKinds ==
    \/ \E URI \in URIInputs : NewConcept(URI)
    \/ \E URI \in URIInputs : NewConceptScheme(URI)
    \/ \E URI \in URIInputs \cup {None} : NewCollection(URI)
    \/ \E obj \in held, newURI \in URIInputs : UpdateURI(obj, newURI)
    \/ \E s \in Held("ConceptScheme"), c \in Held("Concept") : AddTopConcept(s.uri, c.uri)
    \/ \E c \in Held("Concept"), lit \in {Str("x")} : AddPrefLabel(c.uri, lit, "en", FALSE)

InitKinds == Empty(MaxOpsKinds)

SpecKinds == InitKinds /\ [][NextKinds]_vars

-----------------------------------------------------------------------------
(* Properties *)

\* The last call was rejected with an exception derived from SKOSError.
Rejected == result.kind \in SKOSErrors

\* a and b are both inScheme of one scheme in store g.
SharesScheme(g, a, b) ==
    \E tr \in g : tr[1] = a /\ tr[2] = "inScheme" /\ <<b, "inScheme", tr[3]>> \in g

\* A triple of relation p links a and b in store g, in either direction.
Between(g, p, a, b) == <<a, p, b>> \in g \/ <<b, p, a>> \in g

\* The inverse of each relation.
InverseOf(p) ==
    CASE p = "broader" -> "narrower"
      [] p = "narrower" -> "broader"
      [] p = "broadMatch" -> "narrowMatch"
      [] p = "narrowMatch" -> "broadMatch"
      [] OTHER -> p

SemanticAdds == {"addBroader", "addNarrower", "addRelated"}

MappingAdds ==
    {"addBroadMatch", "addNarrowMatch", "addCloseMatch", "addExactMatch",
     "addRelatedMatch"}

\* C1: a call that ends in a SKOSError leaves the store exactly as it was
\* before the call.
C1_RejectionLeavesStore == Rejected => graph = before

\* C2: every relation triple in the store has its inverse triple in the
\* store, the triples written by addExactMatch's propagation included.
C2_EveryRelationHasInverse ==
    \A tr \in graph :
        tr[2] \in {"broader", "narrower", "related", "broadMatch", "narrowMatch",
                   "relatedMatch", "closeMatch", "exactMatch"}
        => <<tr[3], InverseOf(tr[2]), tr[1]>> \in graph

\* C3: (A broader B) is in the store exactly when (B narrower A) is; a
\* successful addBroader leaves both in the store, and removeBroaderConcept
\* and removeNarrower each leave neither.
C3_BroaderNarrowerSymmetry ==
    /\ \A a, b \in Concepts :
          <<a, "broader", b>> \in graph <=> <<b, "narrower", a>> \in graph
    /\ (lastOp.op = "addBroader" /\ result.kind = "ok")
          => /\ <<lastOp.self, "broader", lastOp.arg>> \in graph
             /\ <<lastOp.arg, "narrower", lastOp.self>> \in graph
    /\ lastOp.op = "removeBroaderConcept"
          => /\ <<lastOp.self, "broader", lastOp.arg>> \notin graph
             /\ <<lastOp.arg, "narrower", lastOp.self>> \notin graph
    /\ lastOp.op = "removeNarrower"
          => /\ <<lastOp.self, "narrower", lastOp.arg>> \notin graph
             /\ <<lastOp.arg, "broader", lastOp.self>> \notin graph

\* C3 witness: removeNarrower was called from the broader side on a pair that
\* an earlier addBroader or addNarrower had linked.
C3_Witness ==
    /\ lastOp.op = "removeNarrower"
    /\ lastOp.self # lastOp.arg
    /\ <<lastOp.arg, "broader", lastOp.self>> \in before
    /\ <<lastOp.self, "narrower", lastOp.arg>> \in before

\* C4: with (A broader B) committed and A, B in one scheme, A.addRelated(B)
\* is rejected with DisjointRelationError and no related triple links them.
C4_RelatedAfterBroaderRejected ==
    (/\ lastOp.op = "addRelated"
     /\ lastOp.self # lastOp.arg
     /\ <<lastOp.self, "broader", lastOp.arg>> \in before
     /\ SharesScheme(before, lastOp.self, lastOp.arg))
    => /\ result.kind = "DisjointRelationError"
       /\ ~Between(graph, "related", lastOp.self, lastOp.arg)

\* C5: with an exactMatch triple between A and B, A.addBroadMatch(B) is
\* rejected with DisjointMatchError and writes nothing.
C5_BroadMatchAfterExactMatch ==
    (/\ lastOp.op = "addBroadMatch"
     /\ Between(before, "exactMatch", lastOp.self, lastOp.arg))
    => /\ result.kind = "DisjointMatchError"
       /\ graph = before

\* C6: A.addExactMatch(B) is rejected with DisjointMatchError, writing
\* nothing, whenever B is a broadMatch, narrowMatch or relatedMatch object
\* of A.
C6_ExactMatchAfterOtherMatch ==
    (/\ lastOp.op = "addExactMatch"
     /\ \E p \in {"broadMatch", "narrowMatch", "relatedMatch"} :
            <<lastOp.self, p, lastOp.arg>> \in before)
    => /\ result.kind = "DisjointMatchError"
       /\ graph = before

\* C7: addBroader and addNarrower are rejected with DisjointRelationError,
\* writing nothing, whenever a related triple links the pair.
C7_HierarchyAfterRelated ==
    (/\ lastOp.op \in {"addBroader", "addNarrower"}
     /\ Between(before, "related", lastOp.self, lastOp.arg))
    => /\ result.kind = "DisjointRelationError"
       /\ graph = before

\* C8: a semantic-relation add between two concepts that share no scheme is
\* rejected with ImproperAssociationError and writes nothing.
C8_SemanticNeedsSharedScheme ==
    (/\ lastOp.op \in SemanticAdds
     /\ lastOp.self # lastOp.arg
     /\ ~SharesScheme(before, lastOp.self, lastOp.arg))
    => /\ result.kind = "ImproperAssociationError"
       /\ graph = before

\* C9: a mapping-relation add between two distinct concepts that share a
\* scheme is rejected with ImproperMappingError and writes nothing.
C9_MappingNeedsNoSharedScheme ==
    (/\ lastOp.op \in MappingAdds
     /\ lastOp.self # lastOp.arg
     /\ SharesScheme(before, lastOp.self, lastOp.arg))
    => /\ result.kind = "ImproperMappingError"
       /\ graph = before

\* C9 witness: addExactMatch was called on two distinct concepts of one
\* scheme, between which no exactMatch exists.
C9_Witness ==
    /\ lastOp.op = "addExactMatch"
    /\ lastOp.self # lastOp.arg
    /\ SharesScheme(before, lastOp.self, lastOp.arg)
    /\ ~Between(before, "exactMatch", lastOp.self, lastOp.arg)

\* C10: every semantic relation triple links two concepts that share a
\* scheme, and every mapping relation triple two concepts that share none.
C10_SchemeDiscipline ==
    \A tr \in graph :
        /\ tr[2] \in {"broader", "narrower", "related"}
              => SharesScheme(graph, tr[1], tr[3])
        /\ tr[2] \in SKOSMappingRelations
              => ~SharesScheme(graph, tr[1], tr[3])

\* The mapping relation triples of store g.
MappingTriples(g) == {tr \in g : tr[2] \in SKOSMappingRelations}

\* The concepts of cs are each in a scheme and no two of them share one.
InDifferentSchemes(g, cs) ==
    /\ \A c \in cs : getConceptSchemes(g, c) # {}
    /\ \A c, d \in cs : c # d => ~SharesScheme(g, c, d)

\* The second call of the chain: B.addExactMatch(C) on a store whose mapping
\* triples are those A.addExactMatch(B) writes where there were none, with
\* A, B, C in three different schemes.
ChainSecondCall(a) ==
    /\ lastOp.op = "addExactMatch"
    /\ a \notin {lastOp.self, lastOp.arg}
    /\ lastOp.self # lastOp.arg
    /\ InDifferentSchemes(before, {a, lastOp.self, lastOp.arg})
    /\ MappingTriples(before)
         = MappingTriples(addExactMatch(before \ MappingTriples(before),
                                        a, lastOp.self).g)

\* C11: with A, B, C in three different schemes and no earlier match triples,
\* after A.addExactMatch(B) and then B.addExactMatch(C) the store has an
\* exactMatch triple and a closeMatch triple between A and C, in at least one
\* direction, without addExactMatch having been called on A and C.
C11_ExactMatchChain ==
    \A a \in Concepts :
        ChainSecondCall(a)
        => /\ result.kind = "ok"
           /\ Between(graph, "exactMatch", a, lastOp.arg)
           /\ Between(graph, "closeMatch", a, lastOp.arg)

\* C11 witness: the second call of the chain has been made, and no
\* exactMatch linked A and C before it.
C11_Witness ==
    \E a \in Concepts :
        /\ ChainSecondCall(a)
        /\ MappingTriples(before) # {}
        /\ ~Between(before, "exactMatch", a, lastOp.arg)
        /\ Between(graph, "exactMatch", a, lastOp.arg)

\* The concepts a chain of exactMatch triples, read in either direction,
\* connects to those of group in store g.
RECURSIVE MatchGroup(_, _)
MatchGroup(g, group) ==
    LET next == group \cup {y \in GroupConcepts :
                               \E x \in group : Between(g, "exactMatch", x, y)}
    IN  IF next = group THEN group ELSE MatchGroup(g, next)

\* C12: after any sequence of addExactMatch calls the exactMatch relation on
\* distinct concepts is transitively closed: two concepts connected by a
\* chain of exactMatch links have an exactMatch triple and a closeMatch
\* triple between them, in at least one direction.
C12_ExactMatchClosed ==
    \A x, y \in GroupConcepts :
        (x # y /\ y \in MatchGroup(graph, {x}))
        => /\ Between(graph, "exactMatch", x, y)
           /\ Between(graph, "closeMatch", x, y)

\* C13: under addExactMatch, addCloseMatch, removeExactMatch and
\* removeCloseMatch every exactMatch triple (X exactMatch Y) has the
\* closeMatch triple (X closeMatch Y), of the same direction, beside it.
C13_ExactImpliesClose ==
    \A tr \in graph :
        tr[2] = "exactMatch" => <<tr[1], "closeMatch", tr[3]>> \in graph

\* C13 witness: removeCloseMatch was called on a pair an exactMatch triple
\* linked, and another exactMatch triple remains in the store.
C13_Witness ==
    /\ lastOp.op = "removeCloseMatch"
    /\ <<lastOp.self, "exactMatch", lastOp.arg>> \in before
    /\ <<lastOp.self, "closeMatch", lastOp.arg>> \in before
    /\ \E tr \in graph : tr[2] = "exactMatch"

\* C14: no concept registered as top concept of a scheme has a direct
\* broader concept (its broader object, or a concept with it as narrower
\* object) that is in that scheme. Stated for a broader concept other than
\* the top concept itself.
C14_TopConceptHasNoBroaderInScheme ==
    \A s \in Schemes, c, x \in Concepts :
        (/\ <<s, "hasTopConcept", c>> \in graph
         /\ c # x
         /\ <<c, "broader", x>> \in graph \/ <<x, "narrower", c>> \in graph)
        => <<x, "inScheme", s>> \notin graph

\* Y.addBroader(X) is committed in store g, with X and Y both in scheme s.
BroaderCommittedIn(g, s, y, x) ==
    /\ <<y, "broader", x>> \in g
    /\ <<x, "narrower", y>> \in g
    /\ <<x, "inScheme", s>> \in g
    /\ <<y, "inScheme", s>> \in g

\* Concept c has a broader concept in scheme s, by the direct triples of g.
HasBroaderIn(g, s, c) ==
    \E z \in Concepts :
        /\ <<c, "broader", z>> \in g \/ <<z, "narrower", c>> \in g
        /\ <<z, "inScheme", s>> \in g

\* C15: with X and Y in scheme S and Y.addBroader(X) committed,
\* S.addTopConcept(Y) is rejected with TopConceptError and writes no triple,
\* and S.addTopConcept(X) succeeds when X has no broader concept in S.
C15_TopConceptRule ==
    lastOp.op = "addTopConcept"
    => /\ (\E x \in Concepts : BroaderCommittedIn(before, lastOp.self, lastOp.arg, x))
              => (result.kind = "TopConceptError" /\ graph = before)
       /\ (/\ \E y \in Concepts : BroaderCommittedIn(before, lastOp.self, y, lastOp.arg)
           /\ ~HasBroaderIn(before, lastOp.self, lastOp.arg))
              => (/\ result.kind = "ok"
                  /\ <<lastOp.self, "hasTopConcept", lastOp.arg>> \in graph)

\* C15 witness: S.addTopConcept(X) succeeded for the broader concept X of a
\* pair of scheme S.
C15_Witness ==
    /\ lastOp.op = "addTopConcept"
    /\ result.kind = "ok"
    /\ \E y \in Concepts \ {lastOp.arg} :
           BroaderCommittedIn(before, lastOp.self, y, lastOp.arg)
    /\ <<lastOp.self, "hasTopConcept", lastOp.arg>> \notin before

\* C16: a successful S.addTopConcept(C) adds the triples (S hasTopConcept C),
\* (C topConceptOf S) and (C inScheme S), those of them not yet in the store,
\* and changes no other triple.
C16_TopConceptWrites ==
    (lastOp.op = "addTopConcept" /\ result.kind = "ok")
    => graph = before \cup {<<lastOp.self, "hasTopConcept", lastOp.arg>>,
                            <<lastOp.arg, "topConceptOf", lastOp.self>>,
                            <<lastOp.arg, "inScheme", lastOp.self>>}

\* C16 witness: addTopConcept succeeded for a concept that was in the scheme
\* already, was not yet its top concept, and has relations of its own.
C16_Witness ==
    /\ lastOp.op = "addTopConcept"
    /\ result.kind = "ok"
    /\ <<lastOp.arg, "inScheme", lastOp.self>> \in before
    /\ <<lastOp.self, "hasTopConcept", lastOp.arg>> \notin before
    /\ \E tr \in before : tr[1] = lastOp.arg /\ tr[2] = "narrower"

\* The classes of the three kinds of resource.
Kinds == {"Concept", "ConceptScheme", "Collection"}

\* The kinds identifier uri is typed as in store g.
KindsOf(g, uri) == {cls \in Kinds : TypeTriple(uri, cls) \in g}

\* C17: a constructor called on an identifier typed as another kind is
\* rejected with SchemeConceptError and writes nothing; called on an
\* identifier typed as its own kind, and no other, it succeeds and leaves the
\* store unchanged.
C17_ConstructorTypeCollision ==
    lastOp.op \in Kinds
    => /\ KindsOf(before, lastOp.self) \ {lastOp.op} # {}
             => (result.kind = "SchemeConceptError" /\ graph = before)
       /\ KindsOf(before, lastOp.self) = {lastOp.op}
             => (result.kind = "ok" /\ graph = before)

\* C17 witness: Concept was called on the identifier of a Collection and
\* was rejected.
C17_Witness ==
    /\ lastOp.op = "Concept"
    /\ KindsOf(before, lastOp.self) = {"Collection"}
    /\ result.kind = "SchemeConceptError"

\* C18: no identifier has rdf:type triples for more than one of Concept,
\* ConceptScheme and Collection.
C18_OneKindPerIdentifier ==
    \A tr \in graph : Cardinality(KindsOf(graph, tr[1])) <= 1

\* The second call of the label scenario: A.addPrefLabel(new, "en") with a
\* bare string, on a store where A has the preferred label old@en.
SecondPrefLabel(old) ==
    /\ lastOp.op = "addPrefLabel"
    /\ lastOp.arg \in {Str(s) : s \in Strings \ {old}}
    /\ lastOp.lang = "en"
    /\ <<lastOp.self, "prefLabel", PlainLiteral(old, "en")>> \in before

\* The outcome C19 states for that call: rejected with RedundantLabelError
\* and the store unchanged without replace; with replace accepted, the old
\* label gone and the new one in the store.
PrefLabelReplaced(old) ==
    IF ~lastOp.flag
    THEN result.kind = "RedundantLabelError" /\ graph = before
    ELSE /\ result.kind = "ok"
         /\ <<lastOp.self, "prefLabel", PlainLiteral(old, "en")>> \notin graph
         /\ <<lastOp.self, "prefLabel", PlainLiteral(lastOp.arg.v, "en")>> \in graph

\* C19 as stated: after A.addPrefLabel("x", "en") succeeded,
\* A.addPrefLabel("y", "en") is rejected with RedundantLabelError and leaves
\* the store unchanged without replace, and with replace=True succeeds,
\* ("x"@en) gone and ("y"@en) in the store.
C19_AsStated ==
    \A old \in Strings : SecondPrefLabel(old) => PrefLabelReplaced(old)

\* The new label is not an alternate or hidden label of the concept.
NewLabelUnused ==
    \A label \in {"altLabel", "hiddenLabel"} :
        PlainLiteral(lastOp.arg.v, "en") \notin objects(before, lastOp.self, label)

\* C19 amended: the same, where with replace=True the call succeeds provided
\* "y"@en is not already an alternate or hidden label of A.
C19_ReplacePrefLabel ==
    \A old \in Strings :
        (SecondPrefLabel(old) /\ (lastOp.flag => NewLabelUnused))
        => PrefLabelReplaced(old)

\* C19 witness: the call with replace=True replaced the preferred label.
C19_Witness ==
    \E old \in Strings :
        /\ SecondPrefLabel(old)
        /\ lastOp.flag
        /\ NewLabelUnused
        /\ <<lastOp.self, "prefLabel", PlainLiteral(old, "en")>> \notin graph

\* C20: each concept has at most one prefLabel triple per language tag.
C20_OnePrefLabelPerLanguage ==
    \A a \in LabelSubjects :
        \A l1, l2 \in objects(graph, a, "prefLabel") : l1.lang = l2.lang => l1 = l2

\* C21: no concept has one plain literal (string and language tag) as the
\* object of two different label predicates among prefLabel, altLabel and
\* hiddenLabel.
C21_LabelsDisjoint ==
    \A a \in LabelSubjects :
        \A p, q \in SKOSLabels :
            p # q => objects(graph, a, p) \cap objects(graph, a, q) = {}

\* C21 witness: a label add was rejected because its literal was a label of
\* another kind of the concept.
C21_Witness ==
    /\ lastOp.op \in {"addPrefLabel", "addAltLabel", "addHiddenLabel"}
    /\ result.kind = "ConflictingLabelError"
    /\ \E p \in SKOSLabels :
           /\ p # result.tpl[2]
           /\ result.tpl[3] \in objects(before, lastOp.self, p)

LabelAdds == {"addPrefLabel", "addAltLabel", "addHiddenLabel"}

\* The literal the last label add was to commit, normalized.
NewLiteral == _cleanUpPlainLiteral(lastOp.arg, lastOp.lang)

\* lit is a label, of any kind, of self in store g.
IsLabelOf(g, self, lit) == \E label \in SKOSLabels : lit \in objects(g, self, label)

\* C22 as stated: a label add whose normalized literal is already a label of
\* the subject, of any kind, the kind being added included, is rejected
\* with ConflictingLabelError; labels of other subjects cause no rejection.
C22_AsStated ==
    lastOp.op \in LabelAdds
    => /\ IsLabelOf(before, lastOp.self, NewLiteral)
             => result.kind = "ConflictingLabelError"
       /\ ~IsLabelOf(before, lastOp.self, NewLiteral)
             => result.kind # "ConflictingLabelError"

\* The store the conflict scan of the last addPrefLabel ran on: the
\* preferred labels whose language is the lang argument removed.
AfterPrefScan ==
    before \ {<<lastOp.self, "prefLabel", pl>> :
              pl \in sameLanguage(before, lastOp.self, lastOp.lang)}

\* C22 amended: addAltLabel and addHiddenLabel are rejected with
\* ConflictingLabelError, writing nothing, when the normalized literal is
\* already a label of the subject of any kind. addPrefLabel first scans the
\* preferred labels for the language requested: without replace it is
\* rejected with RedundantLabelError when there is one; otherwise those
\* labels are removed and the call is rejected with ConflictingLabelError
\* when the literal is still a label of the subject. Labels of other
\* subjects cause no rejection.
C22_ConflictingLabel ==
    /\ lastOp.op \in {"addAltLabel", "addHiddenLabel"}
          => IF IsLabelOf(before, lastOp.self, NewLiteral)
             THEN result.kind = "ConflictingLabelError" /\ graph = before
             ELSE result.kind = "ok"
    /\ lastOp.op = "addPrefLabel"
          => IF sameLanguage(before, lastOp.self, lastOp.lang) # {} /\ ~lastOp.flag
             THEN result.kind = "RedundantLabelError" /\ graph = before
             ELSE IF IsLabelOf(AfterPrefScan, lastOp.self, NewLiteral)
             THEN result.kind = "ConflictingLabelError"
             ELSE result.kind = "ok"

\* C22 witness: addAltLabel was rejected for a literal that was already an
\* alternate label of the subject, while another subject has it as a label
\* too.
C22_Witness ==
    /\ lastOp.op = "addAltLabel"
    /\ result.kind = "ConflictingLabelError"
    /\ NewLiteral \in objects(before, lastOp.self, "altLabel")
    /\ \E b \in LabelSubjects \ {lastOp.self} : IsLabelOf(before, b, NewLiteral)

\* The last call was A.addBroader(A).
SelfBroader == lastOp.op = "addBroader" /\ lastOp.self = lastOp.arg

\* The self-relation (A broader A), (A narrower A) is in the store.
SelfRelationCommitted ==
    /\ <<lastOp.self, "broader", lastOp.self>> \in graph
    /\ <<lastOp.self, "narrower", lastOp.self>> \in graph

\* C23 as stated: for every concept A, A.addBroader(A) without the
\* irreflexive flag succeeds and commits (A broader A) and (A narrower A);
\* with irreflexive=True it is rejected with ReflexiveError and leaves the
\* store unchanged.
C23_AsStated ==
    SelfBroader
    => IF lastOp.flag
       THEN result.kind = "ReflexiveError" /\ graph = before
       ELSE result.kind = "ok" /\ SelfRelationCommitted

\* C23 amended: the same, where the call without the flag succeeds for a
\* concept A that is in at least one scheme and has no (A related A) triple;
\* for a concept in no scheme it is rejected with ImproperAssociationError.
C23_ReflexiveDefault ==
    SelfBroader
    => IF lastOp.flag
       THEN result.kind = "ReflexiveError" /\ graph = before
       ELSE IF getConceptSchemes(before, lastOp.self) = {}
       THEN result.kind = "ImproperAssociationError" /\ graph = before
       ELSE <<lastOp.self, "related", lastOp.self>> \notin before
            => (result.kind = "ok" /\ result.warned /\ SelfRelationCommitted)

\* C23 witness: A.addBroader(A) without the flag committed the self-relation.
C23_Witness ==
    /\ SelfBroader
    /\ ~lastOp.flag
    /\ result.kind = "ok"
    /\ <<lastOp.self, "broader", lastOp.self>> \notin before
    /\ SelfRelationCommitted

\* C24: an add-relation call whose target is its subject is rejected with
\* ReflexiveError only when the caller requested irreflexive semantics;
\* without the request the reflexivity test warns and does not reject.
C24_ReflexiveOnlyOnRequest ==
    (/\ lastOp.op \in SemanticAdds \cup MappingAdds
     /\ lastOp.self = lastOp.arg)
    => /\ result.kind = "ReflexiveError" <=> lastOp.flag
       /\ ~lastOp.flag => result.warned

\* The outcome of making the last call once more, on the store it left.
Repeated ==
    LET g == graph
        a == lastOp.self
        b == lastOp.arg
    IN  CASE lastOp.op = "addBroader" -> addBroader(g, a, b, lastOp.flag)
          [] lastOp.op = "addNarrower" -> addNarrower(g, a, b, lastOp.flag)
          [] lastOp.op = "addRelated" -> addRelated(g, a, b, lastOp.flag)
          [] lastOp.op = "addBroadMatch" -> addBroadMatch(g, a, b)
          [] lastOp.op = "addNarrowMatch" -> addNarrowMatch(g, a, b)
          [] lastOp.op = "addCloseMatch" -> addCloseMatch(g, a, b)
          [] lastOp.op = "addExactMatch" -> addExactMatch(g, a, b)
          [] lastOp.op = "addRelatedMatch" -> addRelatedMatch(g, a, b)
          [] lastOp.op = "addAltLabel" -> addAltLabel(g, a, b, lastOp.lang)
          [] lastOp.op = "addHiddenLabel" -> addHiddenLabel(g, a, b, lastOp.lang)
          [] lastOp.op = "addPrefLabel" ->
                addPrefLabel(g, a, b, lastOp.lang, lastOp.flag,
                             CHOOSE first \in firstMet(g, a, lastOp.lang) : TRUE)
          [] OTHER -> Ok(g, NoTriple, FALSE)

\* C25: the same add made twice in a row leaves the store the first call
\* left; a relation add that was accepted is accepted again, exactMatch with
\* its propagation included, and a second addPrefLabel, with or without
\* replace, leaves the store of the first.
C25_AddTwice ==
    lastOp.op \in SemanticAdds \cup MappingAdds \cup LabelAdds
    => /\ Repeated.g = graph
       /\ (lastOp.op \in SemanticAdds \cup MappingAdds /\ result.kind = "ok")
             => Repeated.kind = "ok"

\* C25 witness: addExactMatch was made a second time on a pair it had
\* linked, one of which had a further exact match, and was accepted.
C25_Witness ==
    /\ lastOp.op = "addExactMatch"
    /\ result.kind = "ok"
    /\ <<lastOp.self, "exactMatch", lastOp.arg>> \in before
    /\ <<lastOp.arg, "exactMatch", lastOp.self>> \in before
    /\ \E m \in Concepts \ {lastOp.self, lastOp.arg} :
           <<lastOp.self, "exactMatch", m>> \in before
    /\ graph = before

\* The triple tr with the identifier old replaced by new wherever it is the
\* subject or the object.
Renamed(tr, old, new) ==
    <<IF tr[1] = old THEN new ELSE tr[1], tr[2], IF tr[3] = old THEN new ELSE tr[3]>>

\* C26: updateURI replaces every triple having the old identifier as subject
\* or object by the triple with the new identifier in its place, leaves the
\* other triples as they were and binds the resource to the new identifier;
\* when the two identifiers differ no triple mentions the old one afterwards.
C26_UpdateURI ==
    lastOp.op = "updateURI"
    => LET old == lastOp.self
           new == easyURI(lastOp.arg)
       IN  /\ result.kind = "ok"
           /\ graph = {Renamed(tr, old, new) : tr \in before}
           /\ \E obj \in held : obj.uri = new
           /\ new # old => \A tr \in graph : tr[1] # old /\ tr[3] # old

\* C26 witness: a resource that was the subject of a triple, the object of
\* another and absent from a third was given a new identifier.
C26_Witness ==
    /\ lastOp.op = "updateURI"
    /\ easyURI(lastOp.arg) # lastOp.self
    /\ \E tr \in before : tr[1] = lastOp.self
    /\ \E tr \in before : tr[3] = lastOp.self /\ tr[1] # lastOp.self
    /\ \E tr \in before : tr[1] # lastOp.self /\ tr[3] # lastOp.self
    /\ \E tr \in graph : tr[3] = easyURI(lastOp.arg) /\ tr[1] # easyURI(lastOp.arg)

\* The predicate an add writes.
PredicateOf(op) ==
    CASE op = "addBroader" -> "broader"
      [] op = "addNarrower" -> "narrower"
      [] op = "addRelated" -> "related"
      [] op = "addBroadMatch" -> "broadMatch"
      [] op = "addNarrowMatch" -> "narrowMatch"
      [] op = "addCloseMatch" -> "closeMatch"
      [] op = "addExactMatch" -> "exactMatch"
      [] op = "addRelatedMatch" -> "relatedMatch"
      [] op = "addPrefLabel" -> "prefLabel"
      [] op = "addAltLabel" -> "altLabel"
      [] op = "addHiddenLabel" -> "hiddenLabel"
      [] op = "addTopConcept" -> "hasTopConcept"
      [] OTHER -> "-"

\* The triple the last call attempted to add.
CandidateTriple ==
    CASE lastOp.op \in SemanticAdds \cup MappingAdds \cup {"addTopConcept"} ->
            <<lastOp.self, PredicateOf(lastOp.op), easyURI(lastOp.arg)>>
      [] lastOp.op \in LabelAdds ->
            <<lastOp.self, PredicateOf(lastOp.op), NewLiteral>>
      [] lastOp.op \in Kinds /\ lastOp.arg # None ->
            TypeTriple(easyURI(lastOp.arg), lastOp.op)
      [] OTHER -> result.tpl

\* C27: every rejection carries the triple the call attempted to add: for a
\* label add the subject, the label predicate and the new normalized literal,
\* the redundant-label rejection of addPrefLabel included.
C27_RejectionCarriesCandidate == Rejected => result.tpl = CandidateTriple

\* C28: addBroadMatch between a pair related by relatedMatch, in either
\* direction, is rejected and writes no triple, whether or not an exactMatch
\* exists between the pair.
C28_BroadMatchDisjointFromRelatedMatch ==
    (/\ lastOp.op = "addBroadMatch"
     /\ Between(before, "relatedMatch", lastOp.self, lastOp.arg))
    => Rejected /\ graph = before

\* C28 witness: addBroadMatch was refused as a disjoint relation between two
\* concepts with a relatedMatch and no exactMatch.
C28_Witness ==
    /\ lastOp.op = "addBroadMatch"
    /\ Between(before, "relatedMatch", lastOp.self, lastOp.arg)
    /\ ~Between(before, "exactMatch", lastOp.self, lastOp.arg)
    /\ result.kind = "DisjointRelationError"
    /\ graph = before

\* The literal a label argument stands for: a str is the literal of its text
\* with no language tag.
AsLiteral(label) == IF label.t = "str" THEN PlainLiteral(label.v, NoLang) ELSE label

\* The subjects of store g.
SubjectsOf(g) == {tr[1] : tr \in g}

\* C29: getConceptsByLabel returns exactly the subjects that are inScheme of
\* the scheme and carry the label under prefLabel (prefLabelOnly) or under
\* one of the three label predicates (otherwise); the store is unchanged.
C29_ConceptsByLabel ==
    lastOp.op = "getConceptsByLabel"
    => /\ result.kind = "ok"
       /\ result.ret =
             {s \in SubjectsOf(before) :
                 /\ <<s, "inScheme", lastOp.self>> \in before
                 /\ \E p \in (IF lastOp.flag THEN {"prefLabel"} ELSE SKOSLabels) :
                        <<s, p, AsLiteral(lastOp.arg)>> \in before}
       /\ graph = before

\* C29 witness: a lookup by any label kind returned a concept of the scheme
\* found by its altLabel and left out a concept with the same label that is
\* not in the scheme.
C29_Witness ==
    /\ lastOp.op = "getConceptsByLabel"
    /\ ~lastOp.flag
    /\ \E s \in result.ret : <<s, "altLabel", AsLiteral(lastOp.arg)>> \in graph
    /\ \E s \in LabelSubjects \ result.ret : IsLabelOf(graph, s, AsLiteral(lastOp.arg))

NoteAdds ==
    {"addNote", "addChangeNote", "addDefinition", "addEditorialNote", "addExample",
     "addHistoryNote", "addScopeNote"}

\* The predicate a note add was asked to write.
RequestedPredicate ==
    CASE lastOp.op = "addNote" -> lastOp.flag
      [] lastOp.op = "addChangeNote" -> "changeNote"
      [] lastOp.op = "addDefinition" -> "definition"
      [] lastOp.op = "addEditorialNote" -> "editorialNote"
      [] lastOp.op = "addExample" -> "example"
      [] lastOp.op = "addHistoryNote" -> "historyNote"
      [] lastOp.op = "addScopeNote" -> "scopeNote"

\* The value of a note: a str or a literal as its normalized literal, a
\* blank node or the URI of a document as it is.
NoteValue ==
    IF lastOp.arg.t \in {"str", "lit"}
    THEN _cleanUpPlainLiteral(lastOp.arg, lastOp.lang)
    ELSE lastOp.arg

\* C30: a note add is never rejected and commits exactly the triple
\* (subject, p, value), p the requested predicate when it is a note predicate
\* and skos:note otherwise; no other triple is added or removed.
C30_NoteCommitted ==
    lastOp.op \in NoteAdds
    => /\ result.kind = "ok"
       /\ graph = before \cup
             {<<lastOp.self,
                IF RequestedPredicate \in SKOSNotes THEN RequestedPredicate ELSE "note",
                NoteValue>>}

\* C31: Collection.addPrefLabel and Concept.addPrefLabel apply the same
\* rules: on the same store, subject and arguments they end the same way
\* (accepted, RedundantLabelError or ConflictingLabelError) and leave the
\* same triples.
C31_CollectionLabelsAsConcept ==
    /\ lastOp.op = "Collection.addPrefLabel"
       => \E first \in firstMet(before, lastOp.self, lastOp.lang) :
             LET r == addPrefLabel(before, lastOp.self, lastOp.arg, lastOp.lang,
                                   lastOp.flag, first)
             IN  r.kind = result.kind /\ r.g = graph /\ r.tpl = result.tpl
    /\ lastOp.op = "addPrefLabel"
       => \E first \in firstMet(before, lastOp.self, lastOp.lang) :
             LET r == Collection_addPrefLabel(before, lastOp.self, lastOp.arg,
                                              lastOp.lang, lastOp.flag, first)
             IN  r.kind = result.kind /\ r.g = graph /\ r.tpl = result.tpl

\* C31 witness: a collection that carries an altLabel was refused the same
\* literal as preferred label, as a concept is.
C31_Witness ==
    /\ lastOp.op = "Collection.addPrefLabel"
    /\ result.kind = "ConflictingLabelError"
    /\ result.tpl[3] \in objects(before, lastOp.self, "altLabel")

\* C32: addBroaderTransitive, addNarrowerTransitive and addNotation end with
\* NotImplementedError whatever their arguments and leave the store as it
\* was; no operation writes a broaderTransitive, narrowerTransitive or
\* notation triple.
C32_Unsupported ==
    /\ lastOp.op \in {"addBroaderTransitive", "addNarrowerTransitive", "addNotation"}
       => result.kind = "NotImplementedError" /\ graph = before
    /\ \A tr \in graph : tr[2] \notin UnsupportedPredicates

\* C32 witness: addBroaderTransitive was called between two concepts of one
\* scheme already linked by broader, and failed.
C32_Witness ==
    /\ lastOp.op = "addBroaderTransitive"
    /\ lastOp.self # lastOp.arg
    /\ <<lastOp.self, "broader", lastOp.arg>> \in before
    /\ result.kind = "NotImplementedError"

\* The relation each remove operation is given.
RemovedRelation ==
    CASE lastOp.op = "removeBroaderConcept" -> "broader"
      [] lastOp.op = "removeNarrower" -> "narrower"
      [] lastOp.op = "removeRelated" -> "related"
      [] lastOp.op = "removeBroadMatch" -> "broadMatch"
      [] lastOp.op = "removeNarrowMatch" -> "narrowMatch"
      [] lastOp.op = "removeRelatedMatch" -> "relatedMatch"
      [] lastOp.op = "removeCloseMatch" -> "closeMatch"
      [] lastOp.op = "removeExactMatch" -> "exactMatch"

RelationRemoves ==
    {"removeBroaderConcept", "removeNarrower", "removeRelated", "removeBroadMatch",
     "removeNarrowMatch", "removeRelatedMatch", "removeCloseMatch", "removeExactMatch"}

\* The triple of relation p from a to b and its inverse.
PairOf(p, a, b) == {<<a, p, b>>, <<b, InverseOf(p), a>>}

\* C33 as stated: every remove-relation operation removes the forward and the
\* inverse triple of its relation and leaves every other triple.
C33_AsStated ==
    lastOp.op \in RelationRemoves
    => graph = before \ PairOf(RemovedRelation, lastOp.self, lastOp.arg)

\* C33: every remove-relation operation removes the forward and the inverse
\* triple of its relation, removeCloseMatch the exactMatch pair between the
\* two concepts as well, and leaves every other triple: other relations
\* between the pair and matches to third concepts.
C33_RemoveRelation ==
    lastOp.op \in RelationRemoves
    => graph = before \ (PairOf(RemovedRelation, lastOp.self, lastOp.arg)
                         \cup IF lastOp.op = "removeCloseMatch"
                              THEN PairOf("exactMatch", lastOp.self, lastOp.arg)
                              ELSE {})

\* C33 witness: removeCloseMatch took the closeMatch and the exactMatch pair
\* of two concepts and left their matches to a third concept.
C33_Witness ==
    /\ lastOp.op = "removeCloseMatch"
    /\ PairOf("closeMatch", lastOp.self, lastOp.arg) \subseteq before
    /\ PairOf("exactMatch", lastOp.self, lastOp.arg) \subseteq before
    /\ \E m \in Concepts \ {lastOp.self, lastOp.arg} :
           <<lastOp.self, "exactMatch", m>> \in graph
    /\ ~Between(graph, "exactMatch", lastOp.self, lastOp.arg)

\* Both callers wrote.
BothCommitted == \A c \in Callers : inflight.pc[c] = "committed"

\* An exactMatch and a broadMatch or narrowMatch link the two concepts.
MatchesCoexist ==
    /\ Between(graph, "exactMatch", RaceSubject, RaceTarget)
    /\ Between(graph, "broadMatch", RaceSubject, RaceTarget)

\* C34: when each call is one step, of addExactMatch(A, B) and
\* addBroadMatch(A, B) made on a store with no match between A and B at most
\* one commits, and the two kinds of match never coexist between them. A
\* call made in one step does what its tests followed by its writes do, and
\* a call whose tests passed always writes.
C34_AtomicCallsExclude ==
    /\ (inflight.atomic /\ inflight.clean) => ~BothCommitted /\ ~MatchesCoexist
    /\ lastOp.lang = "whole"
       => \E c \in Callers :
             /\ MethodOf(c) = lastOp.op
             /\ graph = IF ChecksOf(c, before).kind = "ok"
                        THEN WritesOf(c, before).g ELSE before
             /\ result.kind = IF ChecksOf(c, before).kind = "ok"
                              THEN WritesOf(c, before).kind
                              ELSE ChecksOf(c, before).kind
    /\ lastOp.lang = "writes" => result.kind = "ok"

\* C34 witness: the tests and the writes of the two calls interleaved, on a
\* store with no match between A and B, and both committed: exactMatch and
\* broadMatch triples coexist between A and B.
C34_Witness ==
    /\ ~inflight.atomic
    /\ inflight.clean
    /\ BothCommitted
    /\ MatchesCoexist

\* The reflexivity check of the last add fails: the two ends are one concept
\* and the relation is a mapping or the caller asked for irreflexive.
FailsReflexivity ==
    /\ lastOp.self = lastOp.arg
    /\ lastOp.op \in MappingAdds \/ lastOp.flag

\* The scheme check fails: a semantic relation between concepts sharing no
\* scheme, a mapping relation between concepts sharing one.
FailsScheme ==
    IF lastOp.op \in SemanticAdds
    THEN ~SharesScheme(before, lastOp.self, lastOp.arg)
    ELSE SharesScheme(before, lastOp.self, lastOp.arg)

\* The disjointness check of the relation fails.
FailsDisjointness ==
    CASE lastOp.op \in {"addBroader", "addNarrower"} ->
            Between(before, "related", lastOp.self, lastOp.arg)
      [] lastOp.op = "addBroadMatch" ->
            \/ Between(before, "relatedMatch", lastOp.self, lastOp.arg)
            \/ Between(before, "exactMatch", lastOp.self, lastOp.arg)
      [] lastOp.op = "addExactMatch" ->
            \E p \in {"broadMatch", "narrowMatch", "relatedMatch"} :
                <<lastOp.self, p, lastOp.arg>> \in before
      [] OTHER -> FALSE

\* The error of the earliest failing check ("ok" when none fails).
EarliestFailure ==
    IF FailsReflexivity THEN "ReflexiveError"
    ELSE IF FailsScheme
         THEN (IF lastOp.op \in SemanticAdds THEN "ImproperAssociationError"
               ELSE "ImproperMappingError")
    ELSE IF FailsDisjointness
         THEN (IF \/ /\ lastOp.op = "addBroadMatch"
                     /\ ~Between(before, "relatedMatch", lastOp.self, lastOp.arg)
                  \/ lastOp.op = "addExactMatch"
               THEN "DisjointMatchError" ELSE "DisjointRelationError")
    ELSE "ok"

\* C35: an add of a relation runs its checks in the order reflexivity,
\* scheme compatibility, disjointness, before any write: it ends with the
\* error of the earliest check that fails, and a rejected call leaves the
\* store as it was.
C35_ChecksInOrder ==
    lastOp.op \in SemanticAdds \cup MappingAdds
    => /\ result.kind = EarliestFailure
       /\ Rejected => graph = before

\* C36: no two concepts are linked by an exactMatch triple, in either
\* direction, and by a broadMatch, narrowMatch or relatedMatch triple, in
\* either direction.
C36_ExactMatchDisjoint ==
    \A a, b \in Concepts :
        Between(graph, "exactMatch", a, b)
        => \A p \in {"broadMatch", "narrowMatch", "relatedMatch"} :
               ~Between(graph, p, a, b)

\* C37: related and relatedMatch are symmetric, and broadMatch and
\* narrowMatch are inverse of each other, in every store the adds and
\* removes of these relations reach.
C37_InverseConsistent ==
    \A a, b \in Concepts :
        /\ <<a, "related", b>> \in graph <=> <<b, "related", a>> \in graph
        /\ <<a, "relatedMatch", b>> \in graph <=> <<b, "relatedMatch", a>> \in graph
        /\ <<a, "broadMatch", b>> \in graph <=> <<b, "narrowMatch", a>> \in graph

\* C37 witness: a broadMatch was removed from the side of its inverse, and
\* a relatedMatch between the same two concepts stays, in both directions.
C37_Witness ==
    /\ lastOp.op = "removeNarrowMatch"
    /\ <<lastOp.arg, "broadMatch", lastOp.self>> \in before
    /\ <<lastOp.arg, "broadMatch", lastOp.self>> \notin graph
    /\ <<lastOp.self, "narrowMatch", lastOp.arg>> \notin graph
    /\ <<lastOp.self, "relatedMatch", lastOp.arg>> \in graph
    /\ <<lastOp.arg, "relatedMatch", lastOp.self>> \in graph

C39_TopConceptIsMember ==
    \A s \in Schemes, c \in Concepts :
        <<s, "hasTopConcept", c>> \in graph => <<c, "inScheme", s>> \in graph

\* C40: under addExactMatch, addCloseMatch and their removals no concept has
\* an exactMatch or a closeMatch to itself: a call whose target is its own
\* subject is rejected with ReflexiveError and writes nothing, and the
\* propagation loops of addExactMatch skip the pairs that would be reflexive.
C40_NoSelfMatch ==
    /\ \A c \in Concepts :
           /\ <<c, "exactMatch", c>> \notin graph
           /\ <<c, "closeMatch", c>> \notin graph
    /\ (lastOp.op \in {"addExactMatch", "addCloseMatch"} /\ lastOp.self = lastOp.arg)
           => (result.kind = "ReflexiveError" /\ graph = before)

\* addExactMatch has just propagated an exactMatch to a third concept, from
\* a target whose exactMatch objects include the subject itself.
C40_Witness ==
    /\ lastOp.op = "addExactMatch"
    /\ result.kind = "ok"
    /\ lastOp.self \in objects(graph, lastOp.arg, "exactMatch")
    /\ \E m \in Concepts \ {lastOp.self, lastOp.arg} :
           /\ <<lastOp.self, "exactMatch", m>> \in graph \ before
           /\ <<lastOp.self, "closeMatch", m>> \in graph \ before

=============================================================================
